---- MODULE Spec2Model ----
(***************************************************************************)
(* Model of the family-tree application (app.js, the unnamed part_000):    *)
(* the database adapter (loadNewDatabase), the lookup builder with gender  *)
(* inference (buildLookups), the ego-subgraph extractor (getFamilySet),    *)
(* the ancestor/descendant walks and the kinship resolver                  *)
(* (findRelationship, interpretHinduRelation).                             *)
(*                                                                         *)
(* JavaScript strings are sequences of UTF-16 code units, so that the      *)
(* default Array.prototype.sort order, trimming, splitting and upper-      *)
(* casing are computed and not assumed.  The empty string is << >>.        *)
(***************************************************************************)
EXTENDS Integers, Sequences, FiniteSets, TLC

VARIABLES
    pc,          \* position of the start-up promise chain (lines 1541-1568)
    requests,    \* lines 1452-1457: the four fetches Promise.all waits for
    loaded,      \* value the loadNewDatabase() promise resolved with, until
                 \* the then callback has taken it
    PEOPLE,      \* line 47: array of person objects, held as their ids
    peopleMap,   \* line 44: id -> person object (the objects PEOPLE holds)
    childrenMap, \* line 45: parent id -> array of child ids
    genderMap,   \* line 46: id -> 'M' | 'F'
    tree,        \* line 43: the nodes handed to the FamilyTree instance
    activePersonId, \* line 72: the id drawTree was last called with
    relation,    \* last result of findRelationship, with the values it used
    walk,        \* the locals of a running walk (queue, visited, result) or
                 \* of the gender passes of buildLookups, one loop turn a step
    Birth,       \* the Birth field of the objects PEOPLE holds, in its order
    birthdays,   \* last results of the date functions, with their inputs
    caches,      \* sw.js: the CacheStorage, cache name -> request -> response
    fetchEvents, \* sw.js: the fetch events dispatched, each with the position
                 \* of its handler's promise chain
    worker       \* sw.js: the position of the install and activate handlers

\* the state of the family-tree store and its views
storeVars == <<pc, requests, loaded, PEOPLE, peopleMap, childrenMap, genderMap,
               tree, activePersonId, relation>>

\* the state of the birthdays page
dateVars == <<Birth, birthdays>>

\* the state of the service worker
swVars == <<caches, fetchEvents, worker>>

vars == <<storeVars, walk, dateVars, swVars>>

-----------------------------------------------------------------------------
(* Bounds of the model.                                                    *)

NumIds == 3
MaxFamilies == 2
MaxChildren == 1
MaxPhotos == 1
PedigreeSize == 5
WalkSize == 4
MaxBirthPeople == 2
MaxDaysAhead == 3
MaxFetchEvents == 2
MaxChainLinks == 6

-----------------------------------------------------------------------------
(* JavaScript values.                                                      *)

\* null, as written by getFamilySet into fid/mid (lines 434-435)
Null == <<-1>>

\* the string built from a TLA+ tuple of code units
EmptyStr == << >>

\* truthiness of a string or null: "" and null are falsy
Truthy(s) == s # EmptyStr /\ s # Null

\* s < t in the order of code units, which Array.prototype.sort() uses
RECURSIVE StrLess(_, _)
StrLess(s, t) ==
    IF t = << >> THEN FALSE
    ELSE IF s = << >> THEN TRUE
    ELSE IF Head(s) # Head(t) THEN Head(s) < Head(t)
    ELSE StrLess(Tail(s), Tail(t))

\* insertion of x into an already sorted array, after the elements equal to it
RECURSIVE InsertSorted(_, _)
InsertSorted(x, arr) ==
    IF arr = << >> THEN <<x>>
    ELSE IF StrLess(x, Head(arr)) THEN <<x>> \o arr
    ELSE <<Head(arr)>> \o InsertSorted(x, Tail(arr))

\* children.sort() with the default comparator (line 292)
RECURSIVE SortStrings(_)
SortStrings(arr) ==
    IF arr = << >> THEN << >>
    ELSE InsertSorted(arr[Len(arr)], SortStrings(SubSeq(arr, 1, Len(arr) - 1)))

Includes(arr, x) == \E i \in 1..Len(arr) : arr[i] = x

SeqToSet(arr) == {arr[i] : i \in 1..Len(arr)}

IsSpace(c) == c \in {9, 10, 11, 12, 13, 32}

\* String.prototype.trim
RECURSIVE TrimLeft(_)
TrimLeft(s) ==
    IF s # << >> /\ IsSpace(Head(s)) THEN TrimLeft(Tail(s)) ELSE s

RECURSIVE TrimRight(_)
TrimRight(s) ==
    IF s # << >> /\ IsSpace(s[Len(s)]) THEN TrimRight(SubSeq(s, 1, Len(s) - 1)) ELSE s

Trim(s) == TrimRight(TrimLeft(s))

\* fullName.split(/\s+/) of a trimmed, non-empty string (line 439)
RECURSIVE SplitWs(_, _)
SplitWs(s, cur) ==
    IF s = << >> THEN <<cur>>
    ELSE IF IsSpace(Head(s))
         THEN <<cur>> \o SplitWs(TrimLeft(s), << >>)
         ELSE SplitWs(Tail(s), Append(cur, Head(s)))

\* String.prototype.toUpperCase on the letters a-z
UpperUnit(c) == IF c >= 97 /\ c <= 122 THEN c - 32 ELSE c

ToUpper(s) == [i \in 1..Len(s) |-> UpperUnit(s[i])]

\* s.charAt(0): the empty string when s is empty
CharAt0(s) == IF s = << >> THEN << >> ELSE <<Head(s)>>

\* parts.join(" ")
RECURSIVE JoinSpace(_)
JoinSpace(parts) ==
    IF parts = << >> THEN << >>
    ELSE IF Len(parts) = 1 THEN parts[1]
    ELSE parts[1] \o <<32>> \o JoinSpace(Tail(parts))

-----------------------------------------------------------------------------
(* The inputs: the rows of persons.json and families.json.                 *)

\* The person ids of the data set: "I2", "I10", "7", "I1", "I3", "I11", ...
\* in the order of their rows in persons.json.
IdPool == << <<73, 50>>, <<73, 49, 48>>, <<55>>, <<73, 49>>, <<73, 51>>,
             <<73, 49, 49>>, <<73, 52>>, <<73, 53>> >>

Ids == {IdPool[i] : i \in 1..NumIds}

\* "SRIKANTH DHARMAVARAM", the name of the default home person (line 1221)
HomeName == <<83, 82, 73, 75, 65, 78, 84, 72, 32,
              68, 72, 65, 82, 77, 65, 86, 65, 82, 65, 77>>

\* given_name and surname of the row of each id: "Ra Ma"+"dh", none (the
\* name falls back to the id), " si "+"", "SRIKANTH"+"DHARMAVARAM", "K"+"rao", ...
GivenNames == << <<82, 97, 32, 77, 97>>, << >>, <<32, 115, 105, 32>>,
                 SubSeq(HomeName, 1, 8), <<75>>, << >>, <<76>>, << >> >>

Surnames == << <<100, 104>>, << >>, << >>, SubSeq(HomeName, 10, 20),
               <<114, 97, 111>>, << >>, << >>, <<78>> >>

\* values of the sex column: 'M', 'F', and anything else (here "")
SexInputs == {"M", "F", ""}

\* the sex column of a data set that records the sex of its men only
MaleSexInputs == {"M", ""}

PersonRow(i, sex) ==
    [person_id |-> IdPool[i], sex |-> sex,
     given_name |-> GivenNames[i], surname |-> Surnames[i]]

\* persons.json: for each id of the pool no row ("-") or a row with a sex
RECURSIVE PersonRows(_, _)
PersonRows(choice, i) ==
    IF i > NumIds THEN << >>
    ELSE (IF choice[i] = "-" THEN << >> ELSE <<PersonRow(i, choice[i])>>)
         \o PersonRows(choice, i + 1)

PersonsInputs(sexes) == {PersonRows(ch, 1) : ch \in [1..NumIds -> sexes \cup {"-"}]}

\* a row of families.json; a missing husband_id or wife_id is ""
FamilyInputs ==
    {[husband_id |-> h, wife_id |-> w, children |-> c] :
        h \in Ids \cup {EmptyStr}, w \in Ids \cup {EmptyStr},
        c \in {s \in SUBSET Ids : Cardinality(s) <= MaxChildren}}

FamiliesInputs ==
    UNION {[1..k -> FamilyInputs] : k \in 0..MaxFamilies}

\* A pedigree: persons.json holds a row without sex for each of the first n
\* ids of the pool, families.json one row per person, with that person as
\* its only child, any of the persons or nobody as husband (nobody in the
\* last row: the last person is a founder) and, in the first row only, any
\* of the persons, nobody or an id without a row as wife.
PedigreeIds(n) == {IdPool[i] : i \in 1..n}

\* an id that no row of persons.json carries
StrangerId(n) == IdPool[n + 1]

PedigreePersons(n) == [i \in 1..n |-> PersonRow(i, "")]

PedigreeFamilies(n) ==
    {[k \in 1..n |-> [husband_id |-> IF k < n THEN h[k] ELSE EmptyStr,
                      wife_id |-> IF k = 1 THEN w ELSE EmptyStr,
                      children |-> {IdPool[k]}]] :
        h \in [1..(n - 1) -> PedigreeIds(n) \cup {EmptyStr}],
        w \in PedigreeIds(n) \cup {EmptyStr, StrangerId(n)}}

\* A chain of partners: persons.json holds the first n + 1 ids of the pool in
\* any order, the first id with a sex or without; families.json holds a row
\* for each pair of neighbours of the chain, the husband being the nearer to
\* the first id in every other row, the rows standing from the first id on
\* or from the far end on; in a data set where the first id has no sex, a
\* last row makes it the father of the last person of the chain.
Orders(n) ==
    {f \in [1..n -> 1..n] : \A i \in 1..n : \A j \in 1..n : f[i] = f[j] => i = j}

ChainPersons(order, sex) ==
    [i \in 1..Len(order) |-> PersonRow(order[i], IF order[i] = 1 THEN sex ELSE "")]

ChainLink(j) ==
    [husband_id |-> IF j % 2 = 1 THEN IdPool[j] ELSE IdPool[j + 1],
     wife_id |-> IF j % 2 = 1 THEN IdPool[j + 1] ELSE IdPool[j],
     children |-> {}]

ChainFamilies(n, farFirst, sex) ==
    [j \in 1..n |-> ChainLink(IF farFirst THEN n + 1 - j ELSE j)]
    \o (IF sex = ""
        THEN <<[husband_id |-> IdPool[1], wife_id |-> EmptyStr,
                children |-> {IdPool[n + 1]}]>>
        ELSE << >>)

-----------------------------------------------------------------------------
(* JavaScript Map and plain-object helpers.  A Map is held as the sequence *)
(* of its keys in insertion order and the function from key to value.      *)

EmptyMap == [keys |-> << >>, val |-> << >>]

MapHas(m, k) == Includes(m.keys, k)

Put(f, k, v) == [x \in (DOMAIN f) \cup {k} |-> IF x = k THEN v ELSE f[x]]

\* Map.prototype.set: a new key goes last, an old key keeps its place
MapSet(m, k, v) ==
    [keys |-> IF MapHas(m, k) THEN m.keys ELSE Append(m.keys, k),
     val |-> Put(m.val, k, v)]

-----------------------------------------------------------------------------
(* SECTION 5.7: loadNewDatabase (lines 1450-1533).                         *)

\* lines 1474-1479
FullName(p) ==
    LET givenName == Trim(p.given_name)
        surname == Trim(p.surname)
        fullName == Trim(givenName \o <<32>> \o surname)
    IN  IF fullName = EmptyStr THEN p.person_id ELSE fullName

\* lines 1490-1503 (the opaque contact and place fields are left out)
NewPerson(p) ==
    [id |-> p.person_id, name |-> FullName(p), fid |-> EmptyStr, mid |-> EmptyStr,
     pids |-> << >>, image_url |-> EmptyStr]

\* lines 1473-1504: the loop over persons.json; m is newPeopleMap, g genderMap
RECURSIVE LoadPersons(_, _, _)
LoadPersons(rows, m, g) ==
    IF rows = << >> THEN [map |-> m, gender |-> g]
    ELSE LET p == Head(rows)
             g1 == IF p.sex = "M" \/ p.sex = "F" THEN Put(g, p.person_id, p.sex) ELSE g
         IN  LoadPersons(Tail(rows), MapSet(m, p.person_id, NewPerson(p)), g1)

\* lines 1512-1517: link the spouses of one family
LinkSpouses(val, husbandId, wifeId) ==
    IF Truthy(husbandId) /\ Truthy(wifeId)
       /\ husbandId \in DOMAIN val /\ wifeId \in DOMAIN val
    THEN LET v1 == IF ~Includes(val[husbandId].pids, wifeId)
                   THEN [val EXCEPT ![husbandId].pids = Append(@, wifeId)]
                   ELSE val
         IN  IF ~Includes(v1[wifeId].pids, husbandId)
             THEN [v1 EXCEPT ![wifeId].pids = Append(@, husbandId)]
             ELSE v1
    ELSE val

\* lines 1520-1528: link the children of one family to its parents
LinkChildren(val, husbandId, wifeId, children) ==
    [k \in DOMAIN val |->
        IF k \in children
        THEN [val[k] EXCEPT
                !.fid = IF Truthy(husbandId) THEN husbandId ELSE @,
                !.mid = IF Truthy(wifeId) THEN wifeId ELSE @]
        ELSE val[k]]

\* lines 1507-1529: the loop over families.json
RECURSIVE LoadFamilies(_, _, _)
LoadFamilies(families, i, val) ==
    IF i > Len(families) THEN val
    ELSE LET family == families[i]
             v1 == LinkSpouses(val, family.husband_id, family.wife_id)
             v2 == LinkChildren(v1, family.husband_id, family.wife_id, family.children)
         IN  LoadFamilies(families, i + 1, v2)

\* the whole adapter: the array it returns and the genderMap it leaves
loadNewDatabase(persons, families, g) ==
    LET l == LoadPersons(persons, EmptyMap, g)
        val == LoadFamilies(families, 1, l.map.val)
    IN  [data |-> [i \in 1..Len(l.map.keys) |-> val[l.map.keys[i]]],
         gender |-> l.gender]

-----------------------------------------------------------------------------
(* SECTION 2: buildLookups (lines 270-328).                                *)

\* one pass fewer, and one pass more, than the loop of line 310 makes
PassesOneFewer == 5 - 1

PassesOneMore == 5 + 1

\* the number of partnership passes (line 310)
InferencePasses == 5

\* lines 277-282
addChild(cm, parentKey, childId) ==
    IF parentKey \in DOMAIN cm
    THEN [cm EXCEPT ![parentKey] = Append(@, childId)]
    ELSE Put(cm, parentKey, <<childId>>)

\* lines 272-287: one pass over PEOPLE filling peopleMap and childrenMap
RECURSIVE FillMaps(_, _, _, _)
FillMaps(people, i, pm, cm) ==
    IF i > Len(people) THEN [peopleMap |-> pm, childrenMap |-> cm]
    ELSE LET person == people[i]
             c1 == IF Truthy(person.fid) THEN addChild(cm, person.fid, person.id) ELSE cm
             c2 == IF Truthy(person.mid) THEN addChild(c1, person.mid, person.id) ELSE c1
         IN  FillMaps(people, i + 1, Put(pm, person.id, person), c2)

\* the children left in the order of the rows of PEOPLE
SortChildrenSkipped(cm) == cm

\* lines 290-293
SortChildren(cm) == [k \in DOMAIN cm |-> SortStrings(cm[k])]

\* no gender is taken from parenthood
InferFromParentsSkipped(people, i, g) == g

\* lines 299-306: pass 1, gender from parenthood
RECURSIVE InferFromParents(_, _, _)
InferFromParents(people, i, g) ==
    IF i > Len(people) THEN g
    ELSE LET person == people[i]
             g1 == IF Truthy(person.fid) /\ person.fid # EmptyStr
                      /\ person.fid \notin DOMAIN g
                   THEN Put(g, person.fid, "M") ELSE g
             g2 == IF Truthy(person.mid) /\ person.mid # EmptyStr
                      /\ person.mid \notin DOMAIN g1
                   THEN Put(g1, person.mid, "F") ELSE g1
         IN  InferFromParents(people, i + 1, g2)

Opposite(gender) == IF gender = "M" THEN "F" ELSE "M"

\* the partner's gender set from a known one whether or not it has a value
InferPairOverwriting(pm, g, p1_id, p2_id) ==
    IF p2_id \notin DOMAIN pm THEN g
    ELSE IF p1_id \in DOMAIN g THEN Put(g, p2_id, Opposite(g[p1_id]))
    ELSE IF p2_id \in DOMAIN g THEN Put(g, p1_id, Opposite(g[p2_id]))
    ELSE g

\* lines 315-323: one partner of one person; both genders are read first
InferPair(pm, g, p1_id, p2_id) ==
    IF p2_id \notin DOMAIN pm THEN g
    ELSE LET has1 == p1_id \in DOMAIN g
             has2 == p2_id \in DOMAIN g
             g1 == IF has1 /\ ~has2 THEN Put(g, p2_id, Opposite(g[p1_id])) ELSE g
         IN  IF ~has1 /\ has2 THEN Put(g1, p1_id, Opposite(g[p2_id])) ELSE g1

RECURSIVE InferPartners(_, _, _, _, _)
InferPartners(pm, g, p1_id, pids, j) ==
    IF j > Len(pids) THEN g
    ELSE InferPartners(pm, InferPair(pm, g, p1_id, pids[j]), p1_id, pids, j + 1)

\* lines 311-325: one pass over PEOPLE
RECURSIVE InferPass(_, _, _, _)
InferPass(people, i, pm, g) ==
    IF i > Len(people) THEN g
    ELSE InferPass(people, i + 1, pm,
                   InferPartners(pm, g, people[i].id, people[i].pids, 1))

\* lines 310-326: pass 2, repeated InferencePasses times; the test makes
\* TLC work out the map a pass leaves before the next pass begins
RECURSIVE InferFromPartners(_, _, _, _)
InferFromPartners(people, pm, g, n) ==
    IF n = 0 THEN g
    ELSE LET pass == InferPass(people, 1, pm, g)
         IN  IF pass = pass THEN InferFromPartners(people, pm, pass, n - 1) ELSE pass

\* the whole of buildLookups, from the maps as they are before the call
buildLookups(people, pm, cm, g) ==
    LET maps == FillMaps(people, 1, pm, cm)
        g1 == InferFromParents(people, 1, g)
    IN  [peopleMap |-> maps.peopleMap,
         childrenMap |-> SortChildren(maps.childrenMap),
         genderMap |-> InferFromPartners(people, maps.peopleMap, g1, InferencePasses)]

-----------------------------------------------------------------------------
(* SECTION 3: getFamilySet (lines 383-474).                                *)
(*                                                                         *)
(* A node of familySet is an object reference and the object's fields:     *)
(* obj = "clone" is a fresh object made by the spread in addNode,          *)
(* obj = "store" would be the object peopleMap itself holds.  The writes   *)
(* of lines 428-470 go to the object the node refers to.                   *)

MALE_ICON_SVG == "MALE_ICON_SVG"

FEMALE_ICON_SVG == "FEMALE_ICON_SVG"

\* every person reads as of unknown gender
getGenderUnknown(g, personId) == "U"

\* line 500-502
getGender(g, personId) == IF personId \in DOMAIN g THEN g[personId] ELSE "U"

\* addNode without the spread: the node is the object peopleMap holds
addNodeShared(pm, familySet, id) ==
    IF id \in DOMAIN pm /\ ~MapHas(familySet, id)
    THEN MapSet(familySet, id, [obj |-> "store", v |-> pm[id]])
    ELSE familySet

\* addNode collecting into a list: no test for the id being there already
addNodeAgain(pm, familySet, id) ==
    IF id \in DOMAIN pm
    THEN [keys |-> Append(familySet.keys, id),
          val |-> Put(familySet.val, id, [obj |-> "clone", v |-> pm[id]])]
    ELSE familySet

\* lines 395-399
addNode(pm, familySet, id) ==
    IF id \in DOMAIN pm /\ ~MapHas(familySet, id)
    THEN MapSet(familySet, id, [obj |-> "clone", v |-> pm[id]])
    ELSE familySet

RECURSIVE addNodes(_, _, _, _)
addNodes(pm, familySet, ids, i) ==
    IF i > Len(ids) THEN familySet
    ELSE addNodes(pm, addNode(pm, familySet, ids[i]), ids, i + 1)

\* lines 389-416: the candidate set, in insertion order
Candidates(pm, cm, centerId) ==
    LET centerNode == pm[centerId]
        f0 == addNode(pm, EmptyMap, centerId)
        f1 == IF Truthy(centerNode.fid) THEN addNode(pm, f0, centerNode.fid) ELSE f0
        f2 == IF Truthy(centerNode.mid) THEN addNode(pm, f1, centerNode.mid) ELSE f1
        f3 == addNodes(pm, f2, centerNode.pids, 1)
    IN  IF centerId \in DOMAIN cm THEN addNodes(pm, f3, cm[centerId], 1) ELSE f3

\* lines 446-460
Initials(parts) ==
    IF Len(parts) = 0 THEN <<63>>
    ELSE IF Len(parts) = 1 THEN ToUpper(CharAt0(parts[1]))
    ELSE ToUpper(CharAt0(parts[1]) \o CharAt0(parts[Len(parts)]))

\* lines 464-470
Label(fullName, parts) ==
    IF Len(parts) <= 1 THEN fullName
    ELSE LET firstNameFull == JoinSpace(SubSeq(parts, 1, Len(parts) - 1))
             surnameInitial == ToUpper(CharAt0(parts[Len(parts)]))
         IN  firstNameFull \o <<46>> \o surnameInitial

\* line 429: node.pids.filter(pid => nodeIds.has(pid))
FilterPids(nodeIds, pids) == SelectSeq(pids, LAMBDA pid : pid \in nodeIds)

\* the parent links left as they are in the store
PruneParentKept(nodeIds, parentId) == parentId

\* lines 434-435: a parent link to a node outside the subset becomes null
PruneParent(nodeIds, parentId) ==
    IF Truthy(parentId) /\ parentId \notin nodeIds THEN Null ELSE parentId

\* lines 424-473: the callback of nodes.map, applied to the fields of one node
Sanitize(g, nodeIds, node) ==
    LET pids == FilterPids(nodeIds, node.pids)
        fid == PruneParent(nodeIds, node.fid)
        mid == PruneParent(nodeIds, node.mid)
        fullName == Trim(node.name)
        parts == IF fullName # EmptyStr THEN SplitWs(fullName, << >>) ELSE << >>
        hasImage == Truthy(node.image_url) /\ Trim(node.image_url) # EmptyStr
        gender == getGender(g, node.id)
    IN  [id |-> node.id, name |-> node.name, image_url |-> node.image_url,
         pids |-> pids, fid |-> fid, mid |-> mid,
         gender_icon_svg |-> IF hasImage THEN ""
                             ELSE IF gender = "M" THEN MALE_ICON_SVG
                             ELSE IF gender = "F" THEN FEMALE_ICON_SVG
                             ELSE "",
         _initials |-> IF ~hasImage /\ gender # "M" /\ gender # "F"
                       THEN Initials(parts) ELSE EmptyStr,
         _label |-> Label(fullName, parts)]

\* the whole of getFamilySet: the array of nodes it returns, each with the
\* object it refers to and that object's fields after the writes
getFamilySet(pm, cm, g, centerId) ==
    IF centerId \notin DOMAIN pm THEN << >>
    ELSE LET familySet == Candidates(pm, cm, centerId)
             nodeIds == SeqToSet(familySet.keys)
         IN  [i \in 1..Len(familySet.keys) |->
                LET node == familySet.val[familySet.keys[i]]
                IN  [obj |-> node.obj, v |-> Sanitize(g, nodeIds, node.v)]]

\* the fields of the returned nodes
Views(nodes) == [i \in 1..Len(nodes) |-> nodes[i].v]

\* the objects of peopleMap after getFamilySet has written to its nodes
StoreAfter(pm, nodes) ==
    [k \in DOMAIN pm |->
        IF \E i \in 1..Len(nodes) : nodes[i].obj = "store" /\ nodes[i].v.id = k
        THEN (CHOOSE n \in SeqToSet(nodes) : n.obj = "store" /\ n.v.id = k).v
        ELSE pm[k]]

-----------------------------------------------------------------------------
(* The ancestor and descendant walks (lines 476-498 and 540-579).          *)

\* 4294967295 = 2^32 - 1 in decimal digits
MaxIndexDigits == <<52, 50, 57, 52, 57, 54, 55, 50, 57, 53>>

\* x < y as numbers, for two canonical decimals (no leading zero)
NumLess(x, y) == Len(x) < Len(y) \/ (Len(x) = Len(y) /\ StrLess(x, y))

\* a property key that is an array index: a canonical decimal below 2^32 - 1.
\* for-in visits such keys first, in ascending numeric order.
IsArrayIndex(s) ==
    /\ s # << >>
    /\ \A i \in 1..Len(s) : s[i] >= 48 /\ s[i] <= 57
    /\ (Len(s) = 1 \/ s[1] # 48)
    /\ NumLess(s, MaxIndexDigits)

RECURSIVE InsertByNum(_, _)
InsertByNum(x, arr) ==
    IF arr = << >> THEN <<x>>
    ELSE IF NumLess(x, Head(arr)) THEN <<x>> \o arr
    ELSE <<Head(arr)>> \o InsertByNum(x, Tail(arr))

RECURSIVE SortByNum(_)
SortByNum(arr) ==
    IF arr = << >> THEN << >> ELSE InsertByNum(Head(arr), SortByNum(Tail(arr)))

\* the order in which for (anc in obj) visits the keys of a plain object
\* whose keys were created in the order `keys` (line 522)
ForInOrder(keys) ==
    SortByNum(SelectSeq(keys, IsArrayIndex))
        \o SelectSeq(keys, LAMBDA k : ~IsArrayIndex(k))

\* lines 481-496: the loop of getAncestors
RECURSIVE AncestorsLoop(_, _, _, _)
AncestorsLoop(pm, queue, visited, ancestors) ==
    IF queue = << >> THEN ancestors
    ELSE LET current == Head(queue)
             rest == Tail(queue)
         IN  IF current.id \in visited THEN AncestorsLoop(pm, rest, visited, ancestors)
             ELSE IF current.id \notin DOMAIN pm
                  THEN AncestorsLoop(pm, rest, visited \cup {current.id}, ancestors)
                  ELSE LET person == pm[current.id]
                           q1 == IF Truthy(person.fid)
                                 THEN Append(rest, [id |-> person.fid, depth |-> current.depth + 1])
                                 ELSE rest
                           q2 == IF Truthy(person.mid)
                                 THEN Append(q1, [id |-> person.mid, depth |-> current.depth + 1])
                                 ELSE q1
                       IN  AncestorsLoop(pm, q2, visited \cup {current.id},
                                         MapSet(ancestors, current.id, current.depth))

\* the walk started at depth 1
getAncestorsFromOne(pm, id) ==
    AncestorsLoop(pm, <<[id |-> id, depth |-> 1]>>, {}, EmptyMap)

\* lines 476-498: the object { ancestorId: depth }, with its key creation order
getAncestors(pm, id) ==
    AncestorsLoop(pm, <<[id |-> id, depth |-> 0]>>, {}, EmptyMap)

\* what the path walks return when they find nothing (null)
NoPath == <<Null>>

\* lines 544-557: the loop of getAncestorPath
RECURSIVE AncestorPathLoop(_, _, _, _)
AncestorPathLoop(pm, queue, visited, targetAncestor) ==
    IF queue = << >> THEN NoPath
    ELSE LET current == Head(queue)
             rest == Tail(queue)
         IN  IF current.id \in visited
             THEN AncestorPathLoop(pm, rest, visited, targetAncestor)
             ELSE IF current.id = targetAncestor THEN current.path
             ELSE IF current.id \notin DOMAIN pm
                  THEN AncestorPathLoop(pm, rest, visited \cup {current.id}, targetAncestor)
                  ELSE LET p == pm[current.id]
                           q1 == IF Truthy(p.fid)
                                 THEN Append(rest, [id |-> p.fid, path |-> Append(current.path, p.fid)])
                                 ELSE rest
                           q2 == IF Truthy(p.mid)
                                 THEN Append(q1, [id |-> p.mid, path |-> Append(current.path, p.mid)])
                                 ELSE q1
                       IN  AncestorPathLoop(pm, q2, visited \cup {current.id}, targetAncestor)

\* the walk started with the start id twice on its path
getAncestorPathStartTwice(pm, startId, targetAncestor) ==
    AncestorPathLoop(pm, <<[id |-> startId, path |-> <<startId, startId>>]>>, {},
                     targetAncestor)

\* lines 540-559
getAncestorPath(pm, startId, targetAncestor) ==
    AncestorPathLoop(pm, <<[id |-> startId, path |-> <<startId>>]>>, {}, targetAncestor)

\* lines 565-577: the loop of getDescendantPath
RECURSIVE DescendantPathLoop(_, _, _, _)
DescendantPathLoop(cm, queue, visited, targetId) ==
    IF queue = << >> THEN NoPath
    ELSE LET current == Head(queue)
             rest == Tail(queue)
         IN  IF current.id \in visited
             THEN DescendantPathLoop(cm, rest, visited, targetId)
             ELSE IF current.id = targetId THEN current.path
             ELSE LET children == IF current.id \in DOMAIN cm THEN cm[current.id] ELSE << >>
                      pushed == [i \in 1..Len(children) |->
                                    [id |-> children[i], path |-> Append(current.path, children[i])]]
                  IN  DescendantPathLoop(cm, rest \o pushed, visited \cup {current.id}, targetId)

\* the walk started with an empty path
getDescendantPathNoStart(cm, ancestorId, targetId) ==
    DescendantPathLoop(cm, <<[id |-> ancestorId, path |-> << >>]>>, {}, targetId)

\* lines 561-579
getDescendantPath(cm, ancestorId, targetId) ==
    DescendantPathLoop(cm, <<[id |-> ancestorId, path |-> <<ancestorId>>]>>, {}, targetId)

-----------------------------------------------------------------------------
(* The kinship resolver (lines 504-538 and 581-649).                       *)

\* nothing is returned after the last test of the table
GenericRelativeMissing == "undefined"

\* line 648: the label of the pairs (u,d) the table does not list
GenericRelative == "Bandhuvu (Relative)"

\* lines 581-649; up and down are the two paths, or NoPath
interpretHinduRelation(pm, g, homeId, targetId, up, down) ==
    IF up = NoPath \/ down = NoPath THEN "Bandhuvu (Relative)"
    ELSE IF homeId \notin DOMAIN pm \/ targetId \notin DOMAIN pm THEN "Unknown"
    ELSE
    LET u == Len(up) - 1
        d == Len(down) - 1
        homePerson == pm[homeId]
        targetGender == getGender(g, targetId)
    IN  IF d = 0 THEN
            IF u = 1 THEN
                IF targetId = homePerson.fid THEN "Tandri (Father)"
                ELSE IF targetId = homePerson.mid THEN "Talli (Mother)"
                ELSE "Parent"
            ELSE IF u = 2 THEN
                IF up[2] = homePerson.fid
                THEN (IF targetGender = "M" THEN "Tata (Paternal Grandfather)"
                      ELSE "Nayanamma (Paternal Grandmother)")
                ELSE (IF targetGender = "M" THEN "Tata (Maternal Grandfather)"
                      ELSE "Ammamma (Maternal Grandmother)")
            ELSE IF u = 3 THEN "Great Grandparent"
            ELSE "Ancestor"
        ELSE IF u = 0 THEN
            IF d = 1 THEN
                (IF targetGender = "M" THEN "Koduku (Son)"
                 ELSE IF targetGender = "F" THEN "Kumarthe (Daughter)" ELSE "Child")
            ELSE IF d = 2 THEN
                (IF targetGender = "M" THEN "Manavadu (Grandson)"
                 ELSE IF targetGender = "F" THEN "Manavaralu (Granddaughter)"
                 ELSE "Grandchild")
            ELSE IF d = 3 THEN
                (IF targetGender = "M" THEN "Muni Manavadu (Great Grandson)"
                 ELSE IF targetGender = "F" THEN "Muni Manavaralu (Great Granddaughter)"
                 ELSE "Great Grandchild")
            ELSE "Descendant"
        ELSE IF u = 1 /\ d = 1 THEN
            (IF targetGender = "M" THEN "Sodharudu (Brother)" ELSE "Sodari (Sister)")
        ELSE IF u = 2 /\ d = 1 THEN
            IF up[2] = homePerson.fid /\ targetGender = "M"
            THEN "Pedananna / Chinnananna (Paternal Uncle)"
            ELSE IF up[2] = homePerson.fid /\ targetGender = "F"
            THEN "Atta (Paternal Aunt)"
            ELSE IF up[2] # homePerson.fid /\ up[2] = homePerson.mid /\ targetGender = "M"
            THEN "Mama (Maternal Uncle)"
            ELSE IF up[2] # homePerson.fid /\ up[2] = homePerson.mid /\ targetGender = "F"
            THEN "Peddamma / Pinnamma (Maternal Aunt)"
            ELSE "Uncle / Aunt"
        ELSE IF u = 1 /\ d = 2 THEN
            (IF targetGender = "M" THEN "Menalludu (Nephew)" ELSE "Menakodalu (Niece)")
        ELSE IF u = 2 /\ d = 2 THEN "Cousin"
        ELSE GenericRelative

\* the test for the two ids being one person left out
IsSelfNever(id1, id2) == FALSE

\* line 506: the test for the two ids being one person
IsSelf(id1, id2) == id1 = id2

\* a candidate of equal distance replaces the best so far too
CloserOrEqual(dist, bestDistance) == dist <= bestDistance

\* line 525: does the candidate of distance dist replace the best so far
Closer(dist, bestDistance) == dist < bestDistance

\* lines 519-530: the loop over the keys of a1; best is Null before the
\* first common ancestor (bestDistance is then Infinity)
RECURSIVE BestAncestorLoop(_, _, _, _, _, _)
BestAncestorLoop(a1, a2, keys, i, bestAncestor, bestDistance) ==
    IF i > Len(keys) THEN bestAncestor
    ELSE LET anc == keys[i]
         IN  IF anc \in DOMAIN a2.val
                /\ (bestAncestor = Null \/ Closer(a1.val[anc] + a2.val[anc], bestDistance))
             THEN BestAncestorLoop(a1, a2, keys, i + 1, anc, a1.val[anc] + a2.val[anc])
             ELSE BestAncestorLoop(a1, a2, keys, i + 1, bestAncestor, bestDistance)

\* lines 504-538.  The result carries, beside the label the function
\* returns, the values it computed on the way: the route taken, the common
\* ancestor and the two paths handed to interpretHinduRelation.
findRelationship(pm, cm, g, id1, id2) ==
    LET none == [bestAncestor |-> Null, up |-> NoPath, down |-> NoPath]
    IN
    IF ~Truthy(id1) \/ ~Truthy(id2)
    THEN [label |-> "Unknown", route |-> "unknown"] @@ none
    ELSE IF IsSelf(id1, id2)
    THEN [label |-> "Self", route |-> "self"] @@ none
    ELSE IF id1 \in DOMAIN pm /\ Includes(pm[id1].pids, id2)
    THEN [label |-> (IF getGender(g, id2) = "M" THEN "Bhartha (Husband)"
                     ELSE IF getGender(g, id2) = "F" THEN "Bharya (Wife)"
                     ELSE "Spouse"),
          route |-> "partner"] @@ none
    ELSE
    LET a1 == getAncestors(pm, id1)
        a2 == getAncestors(pm, id2)
        bestAncestor == BestAncestorLoop(a1, a2, ForInOrder(a1.keys), 1, Null, 0)
    IN  IF ~Truthy(bestAncestor)
        THEN [label |-> "No direct blood relation", route |-> "none"] @@ none
        ELSE LET pathUp == getAncestorPath(pm, id1, bestAncestor)
                 pathDown == getDescendantPath(cm, bestAncestor, id2)
             IN  [label |-> interpretHinduRelation(pm, g, id1, id2, pathUp, pathDown),
                  route |-> "ancestor", bestAncestor |-> bestAncestor,
                  up |-> pathUp, down |-> pathDown]

-----------------------------------------------------------------------------
(* SECTION 4: dates and birthdays (lines 659-787).  A Date is held as its  *)
(* local year, month (0-11) and day of month; NaN and null, where the code *)
(* expects a number, are the two values below.                             *)

\* the result of parseInt on a string that starts with no digit
NaN == -1

\* null returned where a number is expected (an age, a year)
NullNumber == -2

\* a < b in JavaScript: false when either side is NaN
NumLt(a, b) == a # NaN /\ b # NaN /\ a < b

\* String.prototype.split(sep), sep being one code unit
RECURSIVE Split(_, _)
Split(s, sep) ==
    IF \A i \in 1..Len(s) : s[i] # sep THEN <<s>>
    ELSE LET i == CHOOSE k \in 1..Len(s) : s[k] = sep /\ \A j \in 1..(k - 1) : s[j] # sep
         IN  <<SubSeq(s, 1, i - 1)>> \o Split(SubSeq(s, i + 1, Len(s)), sep)

IsDigit(c) == c >= 48 /\ c <= 57

\* the value of the leading digits of s, acc being the value so far
RECURSIVE DigitsValue(_, _)
DigitsValue(s, acc) ==
    IF s = << >> \/ ~IsDigit(Head(s)) THEN acc
    ELSE DigitsValue(Tail(s), 10 * acc + (Head(s) - 48))

\* parseInt(s, 10): leading white space and one sign are skipped; NaN when
\* no digit follows (a '-' cannot occur: the string was split on it)
parseInt(s) ==
    LET t == TrimLeft(s)
        u == IF t # << >> /\ Head(t) = 43 THEN Tail(t) ELSE t
    IN  IF u = << >> \/ ~IsDigit(Head(u)) THEN NaN ELSE DigitsValue(u, 0)

\* String(n) of a number that is not negative, and of NaN
RECURSIVE NumToStr(_)
NumToStr(n) ==
    IF n = NaN THEN <<78, 97, 78>>
    ELSE IF n < 10 THEN <<48 + n>>
    ELSE NumToStr(n \div 10) \o <<48 + (n % 10)>>

\* line 723: 'JAN', 'FEB', ..., 'DEC'
MONTH_ABBR == << <<74, 65, 78>>, <<70, 69, 66>>, <<77, 65, 82>>, <<65, 80, 82>>, <<77, 65, 89>>, <<74, 85, 78>>, <<74, 85, 76>>, <<65, 85, 71>>, <<83, 69, 80>>, <<79, 67, 84>>, <<78, 79, 86>>, <<68, 69, 67>> >>

\* lines 688-690: months[parts[1].toUpperCase().slice(0, 3)], the month
\* 0-11, or NaN for undefined
MonthOf(part) ==
    LET monthKey == SubSeq(ToUpper(part), 1, IF Len(part) < 3 THEN Len(part) ELSE 3)
    IN  IF \E m \in 1..12 : MONTH_ABBR[m] = monthKey
        THEN (CHOOSE m \in 1..12 : MONTH_ABBR[m] = monthKey) - 1
        ELSE NaN

IsLeap(year) == (year % 4 = 0 /\ year % 100 # 0) \/ year % 400 = 0

DaysInMonth(year, month) ==
    IF month = 1 THEN (IF IsLeap(year) THEN 29 ELSE 28)
    ELSE IF month \in {3, 5, 8, 10} THEN 30 ELSE 31

\* the date is left as it was
AddDaysNone(d, i) == d

\* d.setDate(d.getDate() + i) (line 760), i >= 0
RECURSIVE AddDays(_, _)
AddDays(d, i) ==
    IF i = 0 THEN d
    ELSE IF d.day < DaysInMonth(d.year, d.month)
    THEN AddDays([d EXCEPT !.day = @ + 1], i - 1)
    ELSE IF d.month < 11
    THEN AddDays([d EXCEPT !.month = @ + 1, !.day = 1], i - 1)
    ELSE AddDays([year |-> d.year + 1, month |-> 0, day |-> 1], i - 1)

\* new Date(year, month, day) (line 698): a day past the end of the month
\* runs into the next months, day 0 is the last day of the month before
NewDate(year, month, day) ==
    IF day >= 1 THEN AddDays([year |-> year, month |-> month, day |-> 1], day - 1)
    ELSE IF month > 0
    THEN [year |-> year, month |-> month - 1, day |-> DaysInMonth(year, month - 1)]
    ELSE [year |-> year - 1, month |-> 11, day |-> 31]

\* lines 659-678; now is new Date()
formatDate(dateStr, now) ==
    IF dateStr = EmptyStr THEN EmptyStr
    ELSE LET parts == Split(dateStr, 45)
         IN  IF Len(parts) = 3
             THEN LET parsed == parseInt(parts[3])
                      currentYear == now.year % 100
                      pivot == currentYear + 10
                      year == IF NumLt(parsed, 100)
                              THEN (IF parsed > pivot THEN 1900 + parsed ELSE 2000 + parsed)
                              ELSE parsed
                  IN  parts[1] \o <<45>> \o parts[2] \o <<45>> \o NumToStr(year)
             ELSE dateStr

\* the pivot compared with >=
getAgeFromBirthPivotIncluded(birthStr, now) ==
    LET parts == Split(Trim(birthStr), 45)
    IN  IF Trim(birthStr) = EmptyStr \/ Len(parts) # 3 THEN NullNumber
        ELSE LET day == parseInt(parts[1])
                 month == MonthOf(parts[2])
                 parsed == parseInt(parts[3])
                 pivot == (now.year % 100) + 10
                 year == IF NumLt(parsed, 100)
                         THEN (IF parsed >= pivot THEN 1900 + parsed ELSE 2000 + parsed)
                         ELSE parsed
             IN  IF month = NaN \/ day = NaN \/ year = NaN THEN NullNumber
                 ELSE LET birth == NewDate(year, month, day)
                          m == now.month - birth.month
                          age == (now.year - birth.year)
                                 - (IF m < 0 \/ (m = 0 /\ now.day < birth.day) THEN 1 ELSE 0)
                      IN  IF age < 0 \/ age > 150 THEN NullNumber ELSE age

\* lines 683-705; now is new Date()
getAgeFromBirth(birthStr, now) ==
    LET parts == Split(Trim(birthStr), 45)
    IN  IF Trim(birthStr) = EmptyStr \/ Len(parts) # 3 THEN NullNumber
        ELSE LET day == parseInt(parts[1])
                 month == MonthOf(parts[2])
                 parsed == parseInt(parts[3])
                 currentYear == now.year % 100
                 pivot == currentYear + 10
                 year == IF NumLt(parsed, 100)
                         THEN (IF parsed > pivot THEN 1900 + parsed ELSE 2000 + parsed)
                         ELSE parsed
             IN  IF month = NaN \/ day = NaN THEN NullNumber
                 ELSE IF year = NaN THEN NullNumber
                 ELSE LET birth == NewDate(year, month, day)
                          m == now.month - birth.month
                          age == (now.year - birth.year)
                                 - (IF m < 0 \/ (m = 0 /\ now.day < birth.day) THEN 1 ELSE 0)
                      IN  IF age < 0 \/ age > 150 THEN NullNumber ELSE age

\* what getMonthDayFromBirth returns for a string it cannot read (null)
NoMonthDay == [month |-> NaN, day |-> NaN]

\* lines 710-720
getMonthDayFromBirth(birthStr) ==
    LET parts == Split(Trim(birthStr), 45)
    IN  IF Trim(birthStr) = EmptyStr \/ Len(parts) # 3 THEN NoMonthDay
        ELSE LET day == parseInt(parts[1])
                 month == MonthOf(parts[2])
             IN  IF month = NaN \/ day = NaN \/ day < 1 \/ day > 31 THEN NoMonthDay
                 ELSE [month |-> month, day |-> day]

\* lines 726-738; now is new Date()
getBirthYearFromBirth(birthStr, now) ==
    LET parts == Split(Trim(birthStr), 45)
    IN  IF Trim(birthStr) = EmptyStr \/ Len(parts) # 3 THEN NullNumber
        ELSE LET parsed == parseInt(parts[3])
                 currentYear == now.year % 100
                 pivot == currentYear + 10
             IN  IF parsed = NaN THEN NullNumber
                 ELSE IF parsed < 100
                 THEN (IF parsed > pivot THEN 1900 + parsed ELSE 2000 + parsed)
                 ELSE parsed

\* the window taken with its last day
InWindowInclusive(i, daysAhead) == i <= daysAhead

\* line 758: the test of the loop over the days of the window
InWindow(i, daysAhead) == i < daysAhead

\* lines 769-779: the persons of PEOPLE whose birthday is the day d, from
\* the k-th on (name and phone, copied from the person, are left out)
RECURSIVE BirthdayPersons(_, _, _, _)
BirthdayPersons(people, k, d, now) ==
    IF k > Len(people) THEN << >>
    ELSE LET p == people[k]
             md == getMonthDayFromBirth(p.Birth)
             birthYear == getBirthYearFromBirth(p.Birth, now)
             ageAtDisplay == IF birthYear # NullNumber THEN d.year - birthYear ELSE NullNumber
         IN  (IF md = NoMonthDay \/ md.month # d.month \/ md.day # d.day THEN << >>
              ELSE <<[id |-> p.id,
                      ageAtDisplay |-> IF ageAtDisplay # NullNumber /\ ageAtDisplay >= 0
                                          /\ ageAtDisplay <= 150
                                       THEN ageAtDisplay ELSE NullNumber]>>)
             \o BirthdayPersons(people, k + 1, d, now)

\* lines 758-780: the loop over the days, from day i on; byKey is held as
\* the sequence of its entries in the order their keys were created
RECURSIVE BirthdayDays(_, _, _, _)
BirthdayDays(people, today, i, daysAhead) ==
    IF ~InWindow(i, daysAhead) THEN << >>
    ELSE LET d == AddDays(today, i)
             dateStr == NumToStr(d.day) \o <<45>> \o MONTH_ABBR[d.month + 1]
                            \o <<45>> \o NumToStr(d.year)
         IN  <<[date |-> d, dateStr |-> dateStr,
                persons |-> BirthdayPersons(people, 1, d, today)]>>
             \o BirthdayDays(people, today, i + 1, daysAhead)

\* lines 753-787 (the weekday of an entry is left out); today is new Date()
getUpcomingBirthdays(people, today, daysAhead) ==
    LET byKey == BirthdayDays(people, today, 0, daysAhead)
        keys == SortStrings([i \in 1..Len(byKey) |-> byKey[i].dateStr])
        entry(k) == byKey[CHOOSE i \in 1..Len(byKey) : byKey[i].dateStr = k]
    IN  SelectSeq([i \in 1..Len(keys) |-> entry(keys[i])],
                  LAMBDA e : Len(e.persons) > 0)

\* birth_date of persons.json: "9-Jan-80", "10-JAN-2001", " 1-feb-05 ", "31-Dec-99", "1-Jan-00",
\* "29-Feb-24", "31-Feb-80", "10-May", "x-Jan-y", and for the ages of the
\* birthdays page "9-Jan-x", "9-Jan-30", "9-Jan-1800"
BirthInputs ==
    {<<57, 45, 74, 97, 110, 45, 56, 48>>,
     <<49, 48, 45, 74, 65, 78, 45, 50, 48, 48, 49>>,
     <<32, 49, 45, 102, 101, 98, 45, 48, 53, 32>>,
     <<51, 49, 45, 68, 101, 99, 45, 57, 57>>,
     <<49, 45, 74, 97, 110, 45, 48, 48>>,
     <<50, 57, 45, 70, 101, 98, 45, 50, 52>>,
     <<51, 49, 45, 70, 101, 98, 45, 56, 48>>,
     <<49, 48, 45, 77, 97, 121>>,
     <<120, 45, 74, 97, 110, 45, 121>>,
     <<57, 45, 74, 97, 110, 45, 120>>,
     <<57, 45, 74, 97, 110, 45, 51, 48>>,
     <<57, 45, 74, 97, 110, 45, 49, 56, 48, 48>>}

\* birth_date "15-Aug-yy" for every two-digit year, and "15-Aug-y" for the
\* years of one digit
YearBirthInputs ==
    {<<49, 53, 45, 65, 117, 103, 45>> \o <<48 + (yy \div 10), 48 + (yy % 10)>> : yy \in 0..99}
        \cup {<<49, 53, 45, 65, 117, 103, 45>> \o <<48 + y>> : y \in 0..9}

\* new Date(): 9 Jan 2026, 31 Jan 2026, 31 Dec 2025, 28 Feb 2024, 15 Jun
\* 2095, 6 Nov 2026
ClockInputs ==
    {[year |-> 2026, month |-> 0, day |-> 9], [year |-> 2026, month |-> 0, day |-> 31],
     [year |-> 2025, month |-> 11, day |-> 31], [year |-> 2024, month |-> 1, day |-> 28],
     [year |-> 2095, month |-> 5, day |-> 15], [year |-> 2026, month |-> 10, day |-> 6]}

-----------------------------------------------------------------------------
(* Home person and photos (lines 1218-1225 and 1549-1556).                 *)

\* photos.json: an image "p.jpg" for each of the first k ids of the pool
PhotoUrl == <<112, 46, 106, 112, 103>>

PhotoInputs == {{IdPool[i] : i \in 1..k} : k \in 1..MaxPhotos}

\* the stored "familyTreeHomeId": none, or the last id of the pool
StoredHomeInputs == {Null, IdPool[NumIds]}

\* lines 1551-1555
MergePhotos(pm, photoIds) ==
    [k \in DOMAIN pm |->
        IF k \in photoIds THEN [pm[k] EXCEPT !.image_url = PhotoUrl] ELSE pm[k]]

\* PEOPLE.find(p => p.name === "SRIKANTH DHARMAVARAM") (line 1221)
RECURSIVE FindByName(_, _, _)
FindByName(people, pm, i) ==
    IF i > Len(people) THEN Null
    ELSE IF pm[people[i]].name = HomeName THEN people[i]
    ELSE FindByName(people, pm, i + 1)

\* lines 1218-1225; stored is localStorage.getItem('familyTreeHomeId')
getHomePersonId(people, pm, stored) ==
    IF ~Truthy(stored) \/ stored \notin DOMAIN pm
    THEN LET homePerson == FindByName(people, pm, 1)
         IN  IF homePerson # Null THEN homePerson
             ELSE IF Len(people) > 0 THEN people[1] ELSE Null
    ELSE stored

-----------------------------------------------------------------------------
(* The actions: the start-up promise chain and the user's gestures.        *)

NoRelation == [label |-> "", route |-> "", bestAncestor |-> Null,
               up |-> NoPath, down |-> NoPath, id1 |-> Null, id2 |-> Null]

\* no walk is running
NoWalk == [kind |-> "idle"]

\* lines 1453-1456: the files loadNewDatabase fetches
DataFiles == {"persons.json", "families.json", "places.json", "contacts.json"}

\* the join is open as soon as one response is there
JoinedAtFirst == \E file \in DataFiles : requests[file] = "arrived"

\* line 1452: Promise.all fulfils when every fetch has
Joined == \A file \in DataFiles : requests[file] = "arrived"

\* no date function was called yet
NoBirthdays == [call |-> "none"]

Init ==
    /\ pc = "start"
    /\ requests = [file \in DataFiles |-> "pending"]
    /\ loaded = << >>
    /\ PEOPLE = << >>
    /\ peopleMap = << >>
    /\ childrenMap = << >>
    /\ genderMap = << >>
    /\ tree = << >>
    /\ activePersonId = Null
    /\ relation = NoRelation
    /\ walk = NoWalk
    /\ Birth = << >>
    /\ birthdays = NoBirthdays
    /\ caches = EmptyMap
    /\ fetchEvents = << >>
    /\ worker = [state |-> "parsed", pending |-> {}, deleted |-> {}]

\* lines 1450-1533: loadNewDatabase() resolves with the adapted array; sexes
\* are the values the sex column of persons.json takes
LoadNewDatabase(sexes) ==
    /\ pc = "start"
    /\ Joined
    /\ \E persons \in PersonsInputs(sexes), families \in FamiliesInputs :
         LET r == loadNewDatabase(persons, families, genderMap)
         IN  /\ loaded' = r.data
             /\ genderMap' = r.gender
    /\ pc' = "resolved"
    /\ UNCHANGED <<PEOPLE, peopleMap, childrenMap, tree, activePersonId, relation>>
    /\ UNCHANGED <<requests, walk, dateVars, swVars>>

\* lines 1452-1457: the response of one of the four fetches arrives
ResponseArrives(file) ==
    /\ pc = "start"
    /\ requests[file] = "pending"
    /\ requests' = [requests EXCEPT ![file] = "arrived"]
    /\ UNCHANGED <<pc, loaded, PEOPLE, peopleMap, childrenMap, genderMap, tree,
                   activePersonId, relation>>
    /\ UNCHANGED <<walk, dateVars, swVars>>

\* lines 1542-1547: PEOPLE = data; buildLookups(); then photos.json is fetched
ThenBuild ==
    /\ pc = "resolved"
    /\ LET b == buildLookups(loaded, peopleMap, childrenMap, genderMap)
       IN  /\ peopleMap' = b.peopleMap
           /\ childrenMap' = b.childrenMap
           /\ genderMap' = b.genderMap
    /\ PEOPLE' = [i \in 1..Len(loaded) |-> loaded[i].id]
    /\ loaded' = << >>
    /\ pc' = "photos"
    /\ UNCHANGED <<tree, activePersonId, relation>>
    /\ UNCHANGED <<requests, walk, dateVars, swVars>>

\* lines 1099-1102 and 1115-1116: what drawTree(centerId) does to the state
drawTree(pm, centerId) ==
    LET familyData == getFamilySet(pm, childrenMap, genderMap, centerId)
    IN  /\ activePersonId' = centerId
        /\ tree' = Views(familyData)
        /\ peopleMap' = StoreAfter(pm, familyData)

\* lines 1558-1568: the finally callback, pm being peopleMap as it is then
Finally(pm, stored) ==
    LET initialPersonId == getHomePersonId(PEOPLE, pm, stored)
    IN  IF Truthy(initialPersonId)
        THEN drawTree(pm, initialPersonId)
        ELSE /\ peopleMap' = pm
             /\ UNCHANGED <<tree, activePersonId>>

\* lines 1549-1556 and 1558-1568: photos.json arrived; its images are merged
\* and the finally callback draws the home person's tree
PhotosThen ==
    /\ pc = "photos"
    /\ \E photoIds \in PhotoInputs, stored \in StoredHomeInputs :
         Finally(MergePhotos(peopleMap, photoIds), stored)
    /\ pc' = "done"
    /\ UNCHANGED <<loaded, PEOPLE, childrenMap, genderMap, relation>>
    /\ UNCHANGED <<requests, walk, dateVars, swVars>>

\* lines 1557 and 1558-1568: photos.json failed; the tree is drawn without
PhotosCatch ==
    /\ pc = "photos"
    /\ \E stored \in StoredHomeInputs : Finally(peopleMap, stored)
    /\ pc' = "done"
    /\ UNCHANGED <<loaded, PEOPLE, childrenMap, genderMap, relation>>
    /\ UNCHANGED <<requests, walk, dateVars, swVars>>

\* lines 1152-1156, 1194-1198, 1281-1285: a gesture that calls drawTree
DrawTree(centerId) ==
    /\ pc \in {"photos", "done"}
    /\ drawTree(peopleMap, centerId)
    /\ UNCHANGED <<pc, loaded, PEOPLE, childrenMap, genderMap, relation>>
    /\ UNCHANGED <<requests, walk, dateVars, swVars>>

\* lines 1452-1462: the fetch of a file rejects, or, every response there,
\* its body is not JSON: the promise of loadNewDatabase() rejects
ResponseFails(file) ==
    /\ pc = "start"
    /\ requests[file] = "pending" \/ Joined
    /\ requests' = [requests EXCEPT ![file] = "failed"]
    /\ pc' = "rejected"
    /\ UNCHANGED <<loaded, PEOPLE, peopleMap, childrenMap, genderMap, tree,
                   activePersonId, relation>>
    /\ UNCHANGED <<walk, dateVars, swVars>>

\* lines 1557-1568: the rejection skips the then callbacks; catch warns and
\* the finally callback runs on the store as it is
CatchFinally ==
    /\ pc = "rejected"
    /\ \E stored \in StoredHomeInputs : Finally(peopleMap, stored)
    /\ pc' = "failed"
    /\ UNCHANGED <<loaded, PEOPLE, childrenMap, genderMap, relation>>
    /\ UNCHANGED <<requests, walk, dateVars, swVars>>

\* lines 1281-1288: the home button is pressed; stored is the
\* 'familyTreeHomeId' of localStorage
HomeButton(stored) ==
    /\ Finally(peopleMap, stored)
    /\ UNCHANGED <<pc, loaded, PEOPLE, childrenMap, genderMap, relation>>
    /\ UNCHANGED <<requests, walk, dateVars, swVars>>

\* lines 1166-1198: a suggestion of the search box is clicked; handleSearch
\* lists persons of PEOPLE whose name holds the query of two characters or
\* more
SuggestionClick(id) ==
    /\ \E i \in 1..Len(PEOPLE) : PEOPLE[i] = id
    /\ Len(peopleMap[id].name) >= 2
    /\ drawTree(peopleMap, id)
    /\ UNCHANGED <<pc, loaded, PEOPLE, childrenMap, genderMap, relation>>
    /\ UNCHANGED <<requests, walk, dateVars, swVars>>

\* lines 1152-1156: a node of the drawn tree is clicked
NodeClick(clickedId) ==
    /\ \E i \in 1..Len(tree) : tree[i].id = clickedId
    /\ drawTree(peopleMap, clickedId)
    /\ UNCHANGED <<pc, loaded, PEOPLE, childrenMap, genderMap, relation>>
    /\ UNCHANGED <<requests, walk, dateVars, swVars>>

\* lines 504-538: findRelationship(id1, id2) is called
FindRelationship(id1, id2) ==
    /\ pc \in {"photos", "done"}
    /\ relation' = findRelationship(peopleMap, childrenMap, genderMap, id1, id2)
                     @@ [id1 |-> id1, id2 |-> id2]
    /\ UNCHANGED <<pc, loaded, PEOPLE, peopleMap, childrenMap, genderMap, tree,
                   activePersonId>>
    /\ UNCHANGED <<requests, walk, dateVars, swVars>>

\* lines 1450-1533: loadNewDatabase() resolves, the data set being a
\* pedigree of n persons
LoadPedigree(n) ==
    /\ pc = "start"
    /\ Joined
    /\ \E families \in PedigreeFamilies(n) :
         LET r == loadNewDatabase(PedigreePersons(n), families, genderMap)
         IN  /\ loaded' = r.data
             /\ genderMap' = r.gender
    /\ pc' = "resolved"
    /\ UNCHANGED <<PEOPLE, peopleMap, childrenMap, tree, activePersonId, relation>>
    /\ UNCHANGED <<requests, walk, dateVars, swVars>>

\* lines 1450-1533: loadNewDatabase() resolves, the data set being a chain
\* of partners
LoadChain ==
    /\ pc = "start"
    /\ Joined
    /\ \E n \in 1..MaxChainLinks :
         \E order \in Orders(n + 1), sex \in MaleSexInputs, farFirst \in BOOLEAN :
            LET r == loadNewDatabase(ChainPersons(order, sex),
                                     ChainFamilies(n, farFirst, sex), genderMap)
            IN  /\ loaded' = r.data
                /\ genderMap' = r.gender
    /\ pc' = "resolved"
    /\ UNCHANGED <<PEOPLE, peopleMap, childrenMap, tree, activePersonId, relation>>
    /\ UNCHANGED <<requests, walk, dateVars, swVars>>

-----------------------------------------------------------------------------
(* The loops of the walks and of the partnership passes, one turn a step.  *)
(* walk holds the locals of the running call: its arguments (id, target),  *)
(* queue and visited, the ancestors object being filled, the ids whose     *)
(* turn went past the visited test (expanded), and the value returned.     *)

\* the visited test taken as never met
GuardedNever(visited, id) == FALSE

\* lines 487, 547, 568: if (visited.has(current.id)) continue
Guarded(visited, id) == id \in visited

\* the last entry of the queue is taken, not the first
Pop(queue) ==
    [current |-> queue[Len(queue)], rest |-> SubSeq(queue, 1, Len(queue) - 1)]

\* lines 486, 546, 567: queue.shift()
Shift(queue) == [current |-> Head(queue), rest |-> Tail(queue)]

\* lines 478-479, 541-542, 562-563: a walk is called; its locals are set up
StartWalk(kind, id, target) ==
    /\ pc = "photos"
    /\ walk.kind = "idle"
    /\ walk' = [kind |-> kind, id |-> id, target |-> target,
                queue |-> IF kind = "getAncestors"
                          THEN <<[id |-> id, depth |-> 0]>>
                          ELSE <<[id |-> id, path |-> <<id>>]>>,
                visited |-> {}, ancestors |-> EmptyMap, expanded |-> << >>,
                done |-> FALSE, out |-> Null]
    /\ UNCHANGED <<storeVars, dateVars, swVars>>

\* lines 485-496: one turn of the loop of getAncestors, or its return
AncestorsTurn(pm, w) ==
    IF w.queue = << >> THEN [w EXCEPT !.done = TRUE, !.out = w.ancestors]
    ELSE LET current == Shift(w.queue).current
             rest == Shift(w.queue).rest
             w1 == [w EXCEPT !.visited = @ \cup {current.id},
                             !.expanded = Append(@, current.id)]
         IN  IF Guarded(w.visited, current.id) THEN [w EXCEPT !.queue = rest]
             ELSE IF current.id \notin DOMAIN pm THEN [w1 EXCEPT !.queue = rest]
             ELSE LET person == pm[current.id]
                      q1 == IF Truthy(person.fid)
                            THEN Append(rest, [id |-> person.fid, depth |-> current.depth + 1])
                            ELSE rest
                      q2 == IF Truthy(person.mid)
                            THEN Append(q1, [id |-> person.mid, depth |-> current.depth + 1])
                            ELSE q1
                  IN  [w1 EXCEPT !.queue = q2,
                                 !.ancestors = MapSet(@, current.id, current.depth)]

\* lines 544-558: one turn of the loop of getAncestorPath, or its return
AncestorPathTurn(pm, w) ==
    IF w.queue = << >> THEN [w EXCEPT !.done = TRUE, !.out = NoPath]
    ELSE LET current == Shift(w.queue).current
             rest == Shift(w.queue).rest
             w1 == [w EXCEPT !.visited = @ \cup {current.id},
                             !.expanded = Append(@, current.id)]
         IN  IF Guarded(w.visited, current.id) THEN [w EXCEPT !.queue = rest]
             ELSE IF current.id = w.target
                  THEN [w1 EXCEPT !.done = TRUE, !.out = current.path]
             ELSE IF current.id \notin DOMAIN pm THEN [w1 EXCEPT !.queue = rest]
             ELSE LET p == pm[current.id]
                      q1 == IF Truthy(p.fid)
                            THEN Append(rest, [id |-> p.fid, path |-> Append(current.path, p.fid)])
                            ELSE rest
                      q2 == IF Truthy(p.mid)
                            THEN Append(q1, [id |-> p.mid, path |-> Append(current.path, p.mid)])
                            ELSE q1
                  IN  [w1 EXCEPT !.queue = q2]

\* lines 565-578: one turn of the loop of getDescendantPath, or its return
DescendantPathTurn(cm, w) ==
    IF w.queue = << >> THEN [w EXCEPT !.done = TRUE, !.out = NoPath]
    ELSE LET current == Shift(w.queue).current
             rest == Shift(w.queue).rest
             w1 == [w EXCEPT !.visited = @ \cup {current.id},
                             !.expanded = Append(@, current.id)]
         IN  IF Guarded(w.visited, current.id) THEN [w EXCEPT !.queue = rest]
             ELSE IF current.id = w.target
                  THEN [w1 EXCEPT !.done = TRUE, !.out = current.path]
             ELSE LET children == IF current.id \in DOMAIN cm THEN cm[current.id] ELSE << >>
                      pushed == [i \in 1..Len(children) |->
                                    [id |-> children[i], path |-> Append(current.path, children[i])]]
                  IN  [w1 EXCEPT !.queue = rest \o pushed]

\* the running walk takes its next turn
WalkStep ==
    /\ walk.kind \in {"getAncestors", "getAncestorPath", "getDescendantPath"}
    /\ ~walk.done
    /\ walk' = IF walk.kind = "getAncestors" THEN AncestorsTurn(peopleMap, walk)
               ELSE IF walk.kind = "getAncestorPath" THEN AncestorPathTurn(peopleMap, walk)
               ELSE DescendantPathTurn(childrenMap, walk)
    /\ UNCHANGED <<storeVars, dateVars, swVars>>

\* lines 1542-1546 and 272-306: PEOPLE = data; buildLookups() fills and
\* sorts the maps and infers the genders of the parents; walk.i is the i of
\* the loop of line 310
ThenFill ==
    /\ pc = "resolved"
    /\ LET maps == FillMaps(loaded, 1, peopleMap, childrenMap)
       IN  /\ peopleMap' = maps.peopleMap
           /\ childrenMap' = SortChildren(maps.childrenMap)
    /\ genderMap' = InferFromParents(loaded, 1, genderMap)
    /\ PEOPLE' = [i \in 1..Len(loaded) |-> loaded[i].id]
    /\ walk' = [kind |-> "inferPartners", i |-> 0]
    /\ pc' = "inferring"
    /\ UNCHANGED <<requests, loaded, tree, activePersonId, relation, dateVars, swVars>>

\* lines 310-326: one pass over PEOPLE and the partners of each person
InferStep ==
    /\ pc = "inferring"
    /\ walk.i < InferencePasses
    /\ genderMap' = InferPass(loaded, 1, peopleMap, genderMap)
    /\ walk' = [walk EXCEPT !.i = @ + 1]
    /\ UNCHANGED <<pc, loaded, PEOPLE, peopleMap, childrenMap, tree, activePersonId,
                   relation, requests, dateVars, swVars>>

\* lines 310 and 1547: the loop of the passes is left, buildLookups returns
InferDone ==
    /\ pc = "inferring"
    /\ walk.i >= InferencePasses
    /\ walk' = NoWalk
    /\ loaded' = << >>
    /\ pc' = "photos"
    /\ UNCHANGED <<PEOPLE, peopleMap, childrenMap, genderMap, tree, activePersonId,
                   relation, requests, dateVars, swVars>>

\* the birth_date column of persons.json: rows for the first ids of the
\* pool with any of the birth dates, or one row with a "15-Aug-yy"
BirthColumnInputs ==
    UNION {[1..k -> BirthInputs] : k \in 0..MaxBirthPeople} \cup [1..1 -> YearBirthInputs]

\* lines 1450-1533: loadNewDatabase() resolves, the data set being persons
\* with birth dates and no families; line 1495 sets Birth
LoadBirthDates ==
    /\ pc = "start"
    /\ Joined
    /\ \E births \in BirthColumnInputs :
         LET r == loadNewDatabase([i \in 1..Len(births) |-> PersonRow(i, "")],
                                  << >>, genderMap)
         IN  /\ loaded' = r.data
             /\ genderMap' = r.gender
             /\ Birth' = [i \in 1..Len(births) |->
                            [id |-> IdPool[i], Birth |-> births[i]]]
    /\ pc' = "resolved"
    /\ UNCHANGED <<PEOPLE, peopleMap, childrenMap, tree, activePersonId, relation>>
    /\ UNCHANGED <<requests, walk, birthdays, swVars>>

\* lines 753-787: getUpcomingBirthdays(daysAhead) is called on the day today
GetUpcomingBirthdays(today, daysAhead) ==
    /\ pc \in {"photos", "done"}
    /\ birthdays' = [call |-> "getUpcomingBirthdays", today |-> today,
                     daysAhead |-> daysAhead,
                     list |-> getUpcomingBirthdays(Birth, today, daysAhead)]
    /\ UNCHANGED <<storeVars, walk, Birth, swVars>>

\* lines 875-876 and 772: the date functions are applied to the Birth of
\* the i-th person on the day now
ShowBirth(i, now) ==
    /\ pc \in {"photos", "done"}
    /\ i \in 1..Len(Birth)
    /\ birthdays' = [call |-> "dates", now |-> now, birthStr |-> Birth[i].Birth,
                     birthFormatted |-> formatDate(Birth[i].Birth, now),
                     age |-> getAgeFromBirth(Birth[i].Birth, now),
                     birthYear |-> getBirthYearFromBirth(Birth[i].Birth, now)]
    /\ UNCHANGED <<storeVars, walk, Birth, swVars>>

-----------------------------------------------------------------------------
(* The service worker (src/sw.js).  A request url is held as the scheme    *)
(* and the rest of the absolute url the browser gives event.request.url; a *)
(* response as its url, its status and where it came from.                 *)

\* line 18
CACHE_NAME == "family-tree-cache-v3.6.7"

\* the caches the storage may hold before this worker installs, in the
\* order of their creation: the cache of the earlier version of the worker,
\* one of another script, and its own
EarlierCaches == <<"family-tree-cache-v3.1", "runtime-cache", CACHE_NAME>>

ExistingCacheInputs ==
    {SelectSeq(EarlierCaches, LAMBDA n : n \in S) : S \in SUBSET SeqToSet(EarlierCaches)}

AppUrl(path) == [scheme |-> "https", rest |-> path]

\* lines 21-33, resolved against the scope of the worker
URLS_TO_CACHE ==
    {AppUrl("/"), AppUrl("/index.html"), AppUrl("/app.js"),
     AppUrl("/json_data/persons.json"), AppUrl("/json_data/families.json"),
     AppUrl("/json_data/places.json"), AppUrl("/json_data/contacts.json"),
     AppUrl("/manifest.json"), AppUrl("/photos.json"), AppUrl("/welcome.json"),
     AppUrl("/logo.png")}

\* the requests of the pages: a file of the app shell, the script of the
\* CDN, and a request of a browser extension
RequestUrls ==
    {AppUrl("/app.js"), [scheme |-> "https", rest |-> "balkan.app/js/FamilyTree.js"],
     [scheme |-> "chrome-extension", rest |-> "abc/content.js"]}

RequestMethods == {"GET", "POST"}

\* the status of a network response; 0 stands for a fetch that rejects
NetworkStatuses == {200, 404, 0}

Response(url, status, from) == [url |-> url, status |-> status, from |-> from]

\* undefined, where a response is expected
NoResponse == Response(AppUrl(""), 0, "none")

\* line 95: event.request.url.startsWith('chrome-extension://')
IsChromeExtension(url) == url.scheme = "chrome-extension"

\* caches.match(request) (line 83): the response of the first cache, in the
\* order of creation, that holds one for the url; undefined if none does
RECURSIVE MatchFrom(_, _, _)
MatchFrom(cs, i, url) ==
    IF i > Len(cs.keys) THEN NoResponse
    ELSE IF url \in DOMAIN cs.val[cs.keys[i]] THEN cs.val[cs.keys[i]][url]
    ELSE MatchFrom(cs, i + 1, url)

\* caches.open(name): the cache is created when the storage has none
Opened(cs, name) == IF MapHas(cs, name) THEN cs ELSE MapSet(cs, name, << >>)

\* caches.open(name).then(cache => cache.put(request, response))
PutIn(cs, name, url, response) ==
    LET o == Opened(cs, name)
    IN  [o EXCEPT !.val[name] = Put(@, url, response)]

\* caches.delete(name)
RECURSIVE Without(_, _)
Without(keys, name) ==
    IF keys = << >> THEN << >>
    ELSE (IF Head(keys) = name THEN << >> ELSE <<Head(keys)>>) \o Without(Tail(keys), name)

Deleted(cs, name) ==
    [keys |-> Without(cs.keys, name),
     val |-> [k \in DOMAIN cs.val \ {name} |-> cs.val[k]]]

\* the browser registers the script; the storage holds what earlier
\* workers left, each cache with a response for app.js
Register(existing) ==
    /\ worker.state = "parsed"
    /\ caches' = [keys |-> existing,
                  val |-> [n \in SeqToSet(existing) |->
                            (AppUrl("/app.js") :> Response(AppUrl("/app.js"), 200, n))]]
    /\ worker' = [worker EXCEPT !.state = "installing"]
    /\ UNCHANGED <<storeVars, walk, dateVars, fetchEvents>>

\* lines 39-49: the install handler; cache.addAll stores all the responses
\* or, when a request fails, none, and then the worker is discarded
Install(ok) ==
    /\ worker.state = "installing"
    /\ caches' = IF ok
                 THEN [Opened(caches, CACHE_NAME) EXCEPT !.val[CACHE_NAME] =
                         [u \in (DOMAIN @) \cup URLS_TO_CACHE |->
                            IF u \in URLS_TO_CACHE THEN Response(u, 200, "install")
                            ELSE @[u]]]
                 ELSE Opened(caches, CACHE_NAME)
    /\ worker' = [worker EXCEPT !.state = IF ok THEN "installed" ELSE "redundant"]
    /\ UNCHANGED <<storeVars, walk, dateVars, fetchEvents>>

\* every cache is taken for an old one
IsOldAlways(cacheName) == TRUE

\* line 61: cacheName !== CACHE_NAME
IsOld(cacheName) == cacheName # CACHE_NAME

\* lines 55-64: the activate handler; caches.keys() resolves and
\* caches.delete is called for every old cache
ActivateKeys ==
    /\ worker.state = "installed"
    /\ LET old == {n \in SeqToSet(caches.keys) : IsOld(n)}
       IN  worker' = [state |-> "activating", pending |-> old,
                      deleted |-> worker.deleted \cup old]
    /\ UNCHANGED <<storeVars, walk, dateVars, caches, fetchEvents>>

\* line 63: one caches.delete(cacheName) settles
DeleteSettles(name) ==
    /\ worker.state = "activating"
    /\ name \in worker.pending
    /\ caches' = Deleted(caches, name)
    /\ worker' = [worker EXCEPT !.pending = @ \ {name}]
    /\ UNCHANGED <<storeVars, walk, dateVars, fetchEvents>>

\* lines 59 and 68-69: Promise.all resolves, clients.claim() is called and
\* the activate step completes
ActivateDone ==
    /\ worker.state = "activating"
    /\ worker.pending = {}
    /\ worker' = [worker EXCEPT !.state = "activated"]
    /\ UNCHANGED <<storeVars, walk, dateVars, caches, fetchEvents>>

\* lines 76-82: a fetch event is dispatched; for a request that is not a
\* GET the handler returns without respondWith
FetchEvent(method, url) ==
    /\ worker.state = "activated"
    /\ Len(fetchEvents) < MaxFetchEvents
    /\ fetchEvents' = Append(fetchEvents,
            [method |-> method, url |-> url,
             pc |-> IF method # "GET" THEN "ignored" ELSE "matching",
             cachedResponse |-> NoResponse, contacted |-> FALSE,
             networkResponse |-> NoResponse, response |-> NoResponse,
             put |-> "none"])
    /\ UNCHANGED <<storeVars, walk, dateVars, caches, worker>>

\* the cached response taken as never there
CachedNever(cachedResponse) == FALSE

\* line 86: if (cachedResponse)
Cached(cachedResponse) == cachedResponse # NoResponse

\* lines 83-93: caches.match settles; the event is answered with the
\* cached response, or fetch(event.request) is called
MatchSettles(i) ==
    /\ i \in 1..Len(fetchEvents)
    /\ fetchEvents[i].pc = "matching"
    /\ LET cachedResponse == MatchFrom(caches, 1, fetchEvents[i].url)
       IN  fetchEvents' = [fetchEvents EXCEPT ![i] =
              IF Cached(cachedResponse)
              THEN [@ EXCEPT !.cachedResponse = cachedResponse,
                             !.response = cachedResponse, !.pc = "responded"]
              ELSE [@ EXCEPT !.cachedResponse = cachedResponse,
                             !.contacted = TRUE, !.pc = "fetching"]]
    /\ UNCHANGED <<storeVars, walk, dateVars, caches, worker>>

\* lines 93-105: the network answers with a status, or the fetch rejects
\* (status 0); a response of status 200 is to be put in the cache, the
\* event is answered with the network response, or with undefined
NetworkSettles(i, status) ==
    /\ i \in 1..Len(fetchEvents)
    /\ fetchEvents[i].pc = "fetching"
    /\ LET e == fetchEvents[i]
           networkResponse == IF status = 0 THEN NoResponse
                              ELSE Response(e.url, status, "network")
       IN  fetchEvents' = [fetchEvents EXCEPT ![i] =
              [@ EXCEPT !.networkResponse = networkResponse,
                        !.response = networkResponse,
                        !.pc = "responded",
                        !.put = IF networkResponse # NoResponse /\ status = 200
                                   /\ ~IsChromeExtension(e.url)
                                THEN "opening" ELSE "none"]]
    /\ UNCHANGED <<storeVars, walk, dateVars, caches, worker>>

\* lines 97-99: caches.open(CACHE_NAME) has settled and cache.put stores
\* the copy of the response
CachePut(i) ==
    /\ i \in 1..Len(fetchEvents)
    /\ fetchEvents[i].put = "opening"
    /\ caches' = PutIn(caches, CACHE_NAME, fetchEvents[i].url,
                       fetchEvents[i].networkResponse)
    /\ fetchEvents' = [fetchEvents EXCEPT ![i].put = "done"]
    /\ UNCHANGED <<storeVars, walk, dateVars, worker>>

\* start-up and the tree: the chain and the drawTree gestures
Next ==
    \/ \E file \in DataFiles : ResponseArrives(file)
    \/ LoadNewDatabase(MaleSexInputs)
    \/ ThenBuild
    \/ PhotosThen
    \/ PhotosCatch
    \/ \E centerId \in Ids : DrawTree(centerId)

Spec == Init /\ [][Next]_vars

\* the kinship resolver on every built store
NextKin ==
    \/ \E file \in DataFiles : ResponseArrives(file)
    \/ LoadNewDatabase(SexInputs)
    \/ ThenBuild
    \/ \E id1 \in Ids, id2 \in Ids : FindRelationship(id1, id2)

SpecKin == Init /\ [][NextKin]_vars

\* the kinship resolver on the pedigrees, asked from the first person about
\* every id, and with an id missing
NextDeep ==
    \/ \E file \in DataFiles : ResponseArrives(file)
    \/ LoadPedigree(PedigreeSize)
    \/ ThenBuild
    \/ \E id2 \in PedigreeIds(PedigreeSize) \cup {StrangerId(PedigreeSize)} :
         FindRelationship(IdPool[1], id2)
    \/ \E id \in {Null, EmptyStr} : FindRelationship(IdPool[1], id)
    \/ \E id \in {Null, EmptyStr} : FindRelationship(id, IdPool[1])

SpecDeep == Init /\ [][NextDeep]_vars

\* the walks and the passes turn by turn, on the pedigrees; a loop that
\* runs keeps running (run to completion)
NextWalk ==
    \/ \E file \in DataFiles : ResponseArrives(file)
    \/ LoadPedigree(WalkSize)
    \/ ThenFill
    \/ InferStep
    \/ InferDone
    \/ \E id \in PedigreeIds(WalkSize) \cup {StrangerId(WalkSize)} :
         StartWalk("getAncestors", id, Null)
    \/ \E id \in PedigreeIds(WalkSize),
          target \in PedigreeIds(WalkSize) \cup {StrangerId(WalkSize)} :
         StartWalk("getAncestorPath", id, target)
    \/ \E id \in PedigreeIds(WalkSize),
          target \in PedigreeIds(WalkSize) \cup {StrangerId(WalkSize)} :
         StartWalk("getDescendantPath", id, target)
    \/ WalkStep

SpecWalk ==
    Init /\ [][NextWalk]_vars /\ WF_vars(WalkStep) /\ WF_vars(InferStep \/ InferDone)

\* the birthdays page and the dates of the person card
NextDates ==
    \/ \E file \in DataFiles : ResponseArrives(file)
    \/ LoadBirthDates
    \/ ThenBuild
    \/ \E today \in ClockInputs, daysAhead \in 0..MaxDaysAhead :
         GetUpcomingBirthdays(today, daysAhead)
    \/ \E i \in 1..MaxBirthPeople, now \in ClockInputs : ShowBirth(i, now)

SpecDates == Init /\ [][NextDates]_vars

\* the service worker: its life cycle and the fetch events of its pages
NextSW ==
    \/ \E existing \in ExistingCacheInputs : Register(existing)
    \/ \E ok \in BOOLEAN : Install(ok)
    \/ ActivateKeys
    \/ \E name \in SeqToSet(EarlierCaches) : DeleteSettles(name)
    \/ ActivateDone
    \/ \E method \in RequestMethods, url \in RequestUrls : FetchEvent(method, url)
    \/ \E i \in 1..MaxFetchEvents : MatchSettles(i)
    \/ \E i \in 1..MaxFetchEvents, status \in NetworkStatuses : NetworkSettles(i, status)
    \/ \E i \in 1..MaxFetchEvents : CachePut(i)

SpecSW == Init /\ [][NextSW]_vars

\* the store as start-up builds it from a chain of partners
NextChain ==
    \/ \E file \in DataFiles : ResponseArrives(file)
    \/ LoadChain
    \/ ThenBuild

SpecChain == Init /\ [][NextChain]_vars

\* the store as start-up builds it
NextBuild ==
    \/ \E file \in DataFiles : ResponseArrives(file)
    \/ LoadNewDatabase(SexInputs)
    \/ ThenBuild

SpecBuild == Init /\ [][NextBuild]_vars

\* start-up on the pedigrees with its four fetches, a load that fails, and
\* the gestures of the user at any moment of it
NextStart ==
    \/ \E file \in DataFiles : ResponseArrives(file)
    \/ \E file \in DataFiles : ResponseFails(file)
    \/ CatchFinally
    \/ LoadPedigree(WalkSize)
    \/ ThenBuild
    \/ PhotosThen
    \/ PhotosCatch
    \/ \E stored \in StoredHomeInputs : HomeButton(stored)
    \/ \E id \in Ids : SuggestionClick(id)
    \/ \E clickedId \in Ids : NodeClick(clickedId)

SpecStart == Init /\ [][NextStart]_vars

-----------------------------------------------------------------------------
(* Properties of the ego-subgraph extractor (specification Spec).          *)

TreeIds == {tree[i].id : i \in 1..Len(tree)}

\* a step in which getFamilySet runs and nothing else writes the store
ExtractStep == (\E centerId \in Ids : DrawTree(centerId)) \/ PhotosCatch

\* C1: no view returned by getFamilySet carries a partnerIds entry, a
\* fatherId or a motherId naming an id outside the ids of the returned views.
ExtractClosed ==
    \A i \in 1..Len(tree) :
        /\ \A j \in 1..Len(tree[i].pids) : tree[i].pids[j] \in TreeIds
        /\ Truthy(tree[i].fid) => tree[i].fid \in TreeIds
        /\ Truthy(tree[i].mid) => tree[i].mid \in TreeIds

\* a returned view lost its father, a person of the store outside the subset
ExtractPrunedParent ==
    \E i \in 1..Len(tree) :
        /\ tree[i].id \in DOMAIN peopleMap
        /\ tree[i].fid = Null
        /\ peopleMap[tree[i].id].fid \in DOMAIN peopleMap

\* C2: getFamilySet never mutates the store: every step that runs it leaves
\* every person of peopleMap (its pids list included) and every childrenMap
\* list as it was, also when it prunes and writes display fields on the views.
ExtractLeavesStore ==
    [][ExtractStep => (peopleMap' = peopleMap /\ childrenMap' = childrenMap)]_vars

\* a returned view lost a partner whom the store still lists
ExtractPrunedPartner ==
    \E i \in 1..Len(tree) :
        /\ tree[i].id \in DOMAIN peopleMap
        /\ Len(tree[i].pids) < Len(peopleMap[tree[i].id].pids)
        /\ tree[i]._label # EmptyStr

\* C3: getFamilySet is deterministic and history-independent: a step that
\* runs it changes the result of no later call, whatever the focus.
ExtractHistoryFree ==
    [][ExtractStep =>
        \A focus \in Ids :
            Views(getFamilySet(peopleMap', childrenMap', genderMap', focus))
              = Views(getFamilySet(peopleMap, childrenMap, genderMap, focus))]_vars

\* a gesture has redrawn the tree, with neighbours, on another person than
\* the one start-up drew
ExtractAfterExtract ==
    /\ pc = "done"
    /\ Len(tree) >= 2
    /\ \A stored \in StoredHomeInputs :
         activePersonId # getHomePersonId(PEOPLE, peopleMap, stored)

\* the ids getFamilySet(centerId) has to return: those of the store among
\* the focus, its parents, its partners and its children
ExpectedIds(centerId) ==
    LET centerNode == peopleMap[centerId]
        children == IF centerId \in DOMAIN childrenMap
                    THEN SeqToSet(childrenMap[centerId]) ELSE {}
    IN  ({centerId, centerNode.fid, centerNode.mid} \cup SeqToSet(centerNode.pids)
            \cup children) \cap DOMAIN peopleMap

\* C4: getFamilySet(focus) returns an empty list when focus is absent from
\* peopleMap; otherwise the ids of the views are exactly the ids of the store
\* among the focus, its father, its mother, its partners and its children,
\* each once.
ExtractExactIds ==
    activePersonId # Null =>
        IF activePersonId \notin DOMAIN peopleMap THEN tree = << >>
        ELSE /\ TreeIds = ExpectedIds(activePersonId)
             /\ \A i, j \in 1..Len(tree) : tree[i].id = tree[j].id => i = j

\* the focus was drawn with a parent and a child of the store, one of them
\* reached twice (as a partner too)
ExtractWholeFamily ==
    /\ activePersonId \in DOMAIN peopleMap
    /\ activePersonId \in DOMAIN childrenMap
    /\ peopleMap[activePersonId].fid \in DOMAIN peopleMap
    /\ peopleMap[activePersonId].pids # << >>
    /\ Len(tree) = 3
    /\ Cardinality(TreeIds) = 3

-----------------------------------------------------------------------------
(* Properties of the store that start-up builds (specification SpecBuild). *)

\* C5: every childrenMap list is sorted ascending by id and holds no id
\* twice, also when a record names one id as fatherId and as motherId.
ChildrenSortedUnique ==
    \A k \in DOMAIN childrenMap :
        \A i \in 1..(Len(childrenMap[k]) - 1) :
            StrLess(childrenMap[k][i], childrenMap[k][i + 1])

\* C6: gender inference never overwrites an explicitly supplied gender: the
\* genders loadNewDatabase took from the sex column ('M' or 'F') are those
\* genderMap holds after pass 1 and all the passes of pass 2.
ExplicitGenderKept ==
    [][ThenBuild =>
        \A id \in DOMAIN genderMap :
            id \in DOMAIN genderMap' /\ genderMap'[id] = genderMap[id]]_vars

\* after inference a person is female, though some record names her as its
\* father and none as its mother, and though her partner is female too
ExplicitGenderAgainstRole ==
    /\ pc = "photos"
    /\ \E x \in DOMAIN peopleMap :
         /\ getGender(genderMap, x) = "F"
         /\ \E k \in DOMAIN peopleMap : peopleMap[k].fid = x
         /\ \A k \in DOMAIN peopleMap : peopleMap[k].mid # x
         /\ \E j \in 1..Len(peopleMap[x].pids) :
              /\ peopleMap[x].pids[j] # x
              /\ getGender(genderMap, peopleMap[x].pids[j]) = "F"

-----------------------------------------------------------------------------
(* Properties of the kinship resolver (specification SpecKin).             *)

\* lines 584-585: the distances u and d of a result of the ancestor route
RelUD(r) == <<Len(r.up) - 1, Len(r.down) - 1>>

\* findRelationship called the other way round on the same store
Reverse ==
    findRelationship(peopleMap, childrenMap, genderMap, relation.id2, relation.id1)

\* C7, as stated: when findRelationship takes the common-ancestor route in
\* both directions, the (u,d) of (x,y) is the swapped (d,u) of (y,x), also
\* when several common ancestors tie on the minimal depth sum.
DistancesSwap ==
    (relation.route = "ancestor" /\ Reverse.route = "ancestor") =>
        RelUD(relation) = <<RelUD(Reverse)[2], RelUD(Reverse)[1]>>

\* C7, amended: when findRelationship takes the common-ancestor route in
\* both directions and picks the same common ancestor in both, the (u,d)
\* of (x,y) is the swapped (d,u) of (y,x).
DistancesSwapSameAncestor ==
    (/\ relation.route = "ancestor"
     /\ Reverse.route = "ancestor"
     /\ Reverse.bestAncestor = relation.bestAncestor) =>
        RelUD(relation) = <<RelUD(Reverse)[2], RelUD(Reverse)[1]>>

\* two persons below a common ancestor that both directions pick
DistancesOfSiblings ==
    /\ relation.route = "ancestor"
    /\ Reverse.route = "ancestor"
    /\ Reverse.bestAncestor = relation.bestAncestor
    /\ RelUD(relation)[1] >= 1
    /\ RelUD(relation)[2] >= 1

\* C8: findRelationship(x, x) returns "Self" for every id x of the store.
SelfIsSelf ==
    (relation.id1 = relation.id2 /\ relation.id1 \in DOMAIN peopleMap) =>
        relation.label = "Self"

\* findRelationship(x, x) was called for a person listed as its own partner
SelfOfOwnPartner ==
    /\ relation.id1 = relation.id2
    /\ relation.id1 \in DOMAIN peopleMap
    /\ Includes(peopleMap[relation.id1].pids, relation.id1)
    /\ relation.route = "self"

\* A is the fatherId of B and B the fatherId of C: distinct, present, A not
\* a partner of C
FatherChain(C, B, A) ==
    /\ {A, B, C} \subseteq DOMAIN peopleMap
    /\ A # B /\ B # C /\ A # C
    /\ peopleMap[B].fid = A
    /\ peopleMap[C].fid = B
    /\ ~Includes(peopleMap[C].pids, A)

\* what C9 says of findRelationship(C, A) and getAncestors(C)
GrandfatherResult(C, B, A) ==
    LET depths == getAncestors(peopleMap, C).val
    IN  /\ {A, B, C} \subseteq DOMAIN depths
        /\ depths[C] = 0 /\ depths[B] = 1 /\ depths[A] = 2
        /\ relation.route = "ancestor"
        /\ RelUD(relation) = <<2, 0>>
        /\ relation.label = IF getGender(genderMap, A) = "M"
                            THEN "Tata (Paternal Grandfather)"
                            ELSE "Nayanamma (Paternal Grandmother)"

\* C9, as stated: in any store where A is the fatherId of B and B the
\* fatherId of C (distinct, present, A not a partner of C), getAncestors(C)
\* maps C to 0, B to 1 and A to 2, and findRelationship(C, A) computes u=2,
\* d=0 and returns the paternal grandparent label of A's gender.
GrandfatherOfChain ==
    \A B \in Ids :
        FatherChain(relation.id1, B, relation.id2) =>
            GrandfatherResult(relation.id1, B, relation.id2)

ParentsOf(x) ==
    IF x \in DOMAIN peopleMap
    THEN {peopleMap[x].fid, peopleMap[x].mid} \cap DOMAIN peopleMap
    ELSE {}

\* A is no nearer to C than a grandfather and C and A share no nearer kin:
\* A is not the motherId of C, no parent of A is C, B or the mother of C,
\* and C is no grandparent of A
NoNearerKin(C, B, A) ==
    /\ peopleMap[C].mid # A
    /\ ParentsOf(A) \cap {C, B, peopleMap[C].mid} = {}
    /\ \A p \in ParentsOf(A) : C \notin ParentsOf(p)

\* C9, amended: the same, in the stores where moreover A is not the motherId
\* of C, no parent of A is C, B or the motherId of C, and C is not a
\* grandparent of A.
GrandfatherOfPlainChain ==
    \A B \in Ids :
        (FatherChain(relation.id1, B, relation.id2)
            /\ NoNearerKin(relation.id1, B, relation.id2)) =>
            GrandfatherResult(relation.id1, B, relation.id2)

\* findRelationship(C, A) was called on such a chain, A being a woman
GrandfatherChainResolved ==
    \E B \in Ids :
        /\ FatherChain(relation.id1, B, relation.id2)
        /\ NoNearerKin(relation.id1, B, relation.id2)
        /\ relation.label = "Nayanamma (Paternal Grandmother)"

\* the ids the two depth maps of the last call share
CommonAncestors ==
    LET a1 == getAncestors(peopleMap, relation.id1)
        a2 == getAncestors(peopleMap, relation.id2)
    IN  (DOMAIN a1.val) \cap (DOMAIN a2.val)

DepthSum(anc) ==
    getAncestors(peopleMap, relation.id1).val[anc]
        + getAncestors(peopleMap, relation.id2).val[anc]

\* the place of a key in the order for-in visits the keys of the first map
VisitIndex(anc) ==
    LET order == ForInOrder(getAncestors(peopleMap, relation.id1).keys)
    IN  CHOOSE i \in 1..Len(order) : order[i] = anc

\* C10: for distinct, non-partner ids findRelationship picks a common id of
\* the two depth maps with the minimal depth sum, on a tie the one the
\* iteration of the first map meets first; it returns "No direct blood
\* relation" exactly when the two maps share no id.
NearestCommonAncestor ==
    relation.route \in {"ancestor", "none"} =>
        /\ (relation.label = "No direct blood relation") <=> (CommonAncestors = {})
        /\ CommonAncestors # {} =>
             /\ relation.bestAncestor \in CommonAncestors
             /\ \A c \in CommonAncestors :
                  \/ DepthSum(relation.bestAncestor) < DepthSum(c)
                  \/ /\ DepthSum(relation.bestAncestor) = DepthSum(c)
                     /\ VisitIndex(relation.bestAncestor) <= VisitIndex(c)

\* two common ancestors tie on the minimal depth sum
NearestAmongTied ==
    /\ relation.route = "ancestor"
    /\ \E c \in CommonAncestors :
         /\ c # relation.bestAncestor
         /\ DepthSum(c) = DepthSum(relation.bestAncestor)

-----------------------------------------------------------------------------
(* Properties of the resolver on deeper pedigrees (specification SpecDeep). *)

\* the labels findRelationship and interpretHinduRelation return
RelationLabels ==
    {"Unknown", "Self", "Bhartha (Husband)", "Bharya (Wife)", "Spouse",
     "No direct blood relation", "Bandhuvu (Relative)",
     "Tandri (Father)", "Talli (Mother)", "Parent",
     "Tata (Paternal Grandfather)", "Nayanamma (Paternal Grandmother)",
     "Tata (Maternal Grandfather)", "Ammamma (Maternal Grandmother)",
     "Great Grandparent", "Ancestor",
     "Koduku (Son)", "Kumarthe (Daughter)", "Child",
     "Manavadu (Grandson)", "Manavaralu (Granddaughter)", "Grandchild",
     "Muni Manavadu (Great Grandson)", "Muni Manavaralu (Great Granddaughter)",
     "Great Grandchild", "Descendant",
     "Sodharudu (Brother)", "Sodari (Sister)",
     "Pedananna / Chinnananna (Paternal Uncle)", "Atta (Paternal Aunt)",
     "Mama (Maternal Uncle)", "Peddamma / Pinnamma (Maternal Aunt)",
     "Uncle / Aunt", "Menalludu (Nephew)", "Menakodalu (Niece)", "Cousin"}

\* the pairs (u,d) the classification table lists
ListedUD(ud) ==
    \/ ud[2] = 0
    \/ ud[1] = 0
    \/ ud \in {<<1, 1>>, <<2, 1>>, <<1, 2>>, <<2, 2>>}

\* C11: findRelationship is total: for every pair of ids (present, absent or
\* missing, with cyclic or dangling parent links) it returns a label of the
\* fixed label set, and for every pair (u,d) the classification table does
\* not list it returns "Bandhuvu (Relative)".
ResolveTotal ==
    relation.route # "" =>
        /\ relation.label \in RelationLabels
        /\ (relation.route = "ancestor" /\ relation.up # NoPath
                /\ relation.down # NoPath /\ ~ListedUD(RelUD(relation)))
             => relation.label = "Bandhuvu (Relative)"

\* a pair the table does not list was resolved, in a store with a parent
\* link that dangles
ResolvedUnlisted ==
    /\ relation.route = "ancestor"
    /\ relation.up # NoPath /\ relation.down # NoPath
    /\ ~ListedUD(RelUD(relation))
    /\ \E k \in DOMAIN peopleMap :
         Truthy(peopleMap[k].mid) /\ peopleMap[k].mid \notin DOMAIN peopleMap

-----------------------------------------------------------------------------
(* Properties of the walks, turn by turn (specification SpecWalk).         *)

Walking == walk.kind \in {"getAncestors", "getAncestorPath", "getDescendantPath"}

\* no id went past the visited test twice in the running walk
ExpandedOnce ==
    Walking =>
        \A i \in 1..Len(walk.expanded) : \A j \in 1..Len(walk.expanded) :
            walk.expanded[i] = walk.expanded[j] => i = j

\* C12: the partnership passes and the three walks terminate on every
\* store, also with partner cycles and with cycles in the fid/mid links:
\* the passes that start reach the end of buildLookups, a walk that is
\* called returns, and a walk expands no id twice.
WalksTerminate ==
    /\ []ExpandedOnce
    /\ (pc = "inferring") ~> (pc = "photos")
    /\ (Walking /\ ~walk.done) ~> (Walking /\ walk.done)

\* a walk has returned although it met an id a second time in its queue, in
\* a store where two persons are each other's partner
WalkedAroundCycle ==
    /\ Walking /\ walk.done
    /\ Cardinality(walk.visited) >= 2
    /\ walk.id \in DOMAIN peopleMap
    /\ peopleMap[walk.id].fid \in walk.visited
    /\ peopleMap[walk.id].fid \in DOMAIN peopleMap
    /\ peopleMap[peopleMap[walk.id].fid].fid = walk.id
    /\ \E a \in DOMAIN peopleMap : \E b \in DOMAIN peopleMap :
         a # b /\ Includes(peopleMap[a].pids, b) /\ Includes(peopleMap[b].pids, a)

\* the store persons a walk along the fid/mid links of store persons
\* reaches from id in exactly n steps
RECURSIVE Layer(_, _)
Layer(id, n) ==
    IF n = 0 THEN {id} \cap DOMAIN peopleMap
    ELSE {k \in DOMAIN peopleMap :
            \E c \in Layer(id, n - 1) : k \in {peopleMap[c].fid, peopleMap[c].mid}}

StoreSize == Cardinality(DOMAIN peopleMap)

\* the least number of parent links from id to the store person k
MinDepth(id, k) == CHOOSE n \in 0..StoreSize : k \in Layer(id, n) /\ \A m \in 0..(n - 1) : k \notin Layer(id, m)

\* C19: getAncestors(id), for an id of the store, maps id to 0 and every
\* store person reachable from id over fid/mid links to the least number of
\* such links from id to that person; its keys are ids of the store and no
\* others, so it has at most as many entries as the store.
AncestorsMinDepth ==
    (walk.kind = "getAncestors" /\ walk.done /\ walk.id \in DOMAIN peopleMap) =>
        LET depths == walk.out.val
        IN  /\ walk.id \in DOMAIN depths /\ depths[walk.id] = 0
            /\ DOMAIN depths = UNION {Layer(walk.id, n) : n \in 0..StoreSize}
            /\ \A k \in DOMAIN depths : depths[k] = MinDepth(walk.id, k)
            /\ DOMAIN depths \subseteq DOMAIN peopleMap
            /\ Cardinality(DOMAIN depths) <= StoreSize

\* getAncestors has returned a map with a person who is a parent and a
\* grandparent of id at once
AncestorsOverTwoRoutes ==
    /\ walk.kind = "getAncestors" /\ walk.done /\ walk.id \in DOMAIN peopleMap
    /\ \E k \in Layer(walk.id, 1) \cap Layer(walk.id, 2) : k # walk.id

\* the ids, of the store or not, that the fid/mid links of store persons
\* lead to from id in exactly n steps
RECURSIVE Reached(_, _)
Reached(id, n) ==
    IF n = 0 THEN {id}
    ELSE {k \in UNION {{peopleMap[c].fid, peopleMap[c].mid} :
                          c \in Reached(id, n - 1) \cap DOMAIN peopleMap} : Truthy(k)}

\* is target reached from id in at most n steps, and exactly in n at first
ReachedWithin(id, target, n) == \E m \in 0..n : target \in Reached(id, m)

ReachedFirstIn(id, target, n) ==
    n >= 0 /\ target \in Reached(id, n) /\ ~(n > 0 /\ ReachedWithin(id, target, n - 1))

\* C20: getAncestorPath(start, target) returns, when target is reachable
\* from start over parent links, a shortest list from start to target in
\* which every element is the fid or the mid of the one before, going
\* through the father of start when shortest paths go through the father
\* and through the mother; it returns null when target is unreachable.
AncestorPathShortest ==
    (walk.kind = "getAncestorPath" /\ walk.done) =>
        LET path == walk.out
            start == walk.id
            target == walk.target
        IN  IF ReachedWithin(start, target, StoreSize)
            THEN /\ path # NoPath
                 /\ path[1] = start /\ path[Len(path)] = target
                 /\ \A i \in 1..(Len(path) - 1) :
                      /\ path[i] \in DOMAIN peopleMap
                      /\ path[i + 1] \in {peopleMap[path[i]].fid, peopleMap[path[i]].mid}
                 /\ ReachedFirstIn(start, target, Len(path) - 1)
                 /\ (/\ start \in DOMAIN peopleMap /\ start # target
                     /\ Truthy(peopleMap[start].fid) /\ Truthy(peopleMap[start].mid)
                     /\ ReachedFirstIn(peopleMap[start].fid, target, Len(path) - 2)
                     /\ ReachedFirstIn(peopleMap[start].mid, target, Len(path) - 2))
                    => path[2] = peopleMap[start].fid
            ELSE path = NoPath

\* getAncestorPath has returned a path of two links to a grandparent whom
\* the father and the mother of start, two persons, both have as a parent
AncestorPathTied ==
    /\ walk.kind = "getAncestorPath" /\ walk.done /\ walk.out # NoPath
    /\ Len(walk.out) = 3
    /\ walk.id \in DOMAIN peopleMap
    /\ Truthy(peopleMap[walk.id].mid)
    /\ peopleMap[walk.id].fid # peopleMap[walk.id].mid
    /\ walk.target \in Reached(peopleMap[walk.id].mid, 1)
    /\ walk.target \in Reached(peopleMap[walk.id].fid, 1)

-----------------------------------------------------------------------------
(* Properties of the dates and the birthdays (specification SpecDates).    *)

\* the calendar order of two dates
DateBefore(a, b) ==
    \/ a.year < b.year
    \/ a.year = b.year /\ a.month < b.month
    \/ a.year = b.year /\ a.month = b.month /\ a.day < b.day

\* C13: getUpcomingBirthdays(daysAhead) returns its date groups sorted by
\* calendar date ascending, for every today and every daysAhead, also when
\* the window goes from a one-digit day to a two-digit day or across the
\* end of a month or of a year.
BirthdaysByDate ==
    birthdays.call = "getUpcomingBirthdays" =>
        \A i \in 1..Len(birthdays.list) : \A j \in 1..Len(birthdays.list) :
            i < j => DateBefore(birthdays.list[i].date, birthdays.list[j].date)

\* C14: getUpcomingBirthdays(0) returns an empty list for every store and
\* every today.
EmptyWindowEmptyList ==
    (birthdays.call = "getUpcomingBirthdays" /\ birthdays.daysAhead = 0) =>
        birthdays.list = << >>

\* getUpcomingBirthdays(0) was called on the birthday of a person
EmptyWindowOnBirthday ==
    /\ birthdays.call = "getUpcomingBirthdays"
    /\ birthdays.daysAhead = 0
    /\ \E i \in 1..Len(Birth) :
         getMonthDayFromBirth(Birth[i].Birth)
            = [month |-> birthdays.today.month, day |-> birthdays.today.day]

\* the year the pivot rule gives the two-digit year yy in the year of now
PivotYear(yy, now) == IF yy > (now.year % 100) + 10 THEN 1900 + yy ELSE 2000 + yy

\* the parts of the birth string the date functions were last applied to
BirthParts == Split(Trim(birthdays.birthStr), 45)

\* C15: for every current year and every two-digit year yy in 0..99 the
\* year is resolved to 1900+yy when yy > (currentYear mod 100) + 10 and to
\* 2000+yy otherwise, and formatDate, getAgeFromBirth and
\* getBirthYearFromBirth resolve the same yy to the same year.
PivotYearSame ==
    (/\ birthdays.call = "dates"
     /\ Len(BirthParts) = 3
     /\ parseInt(BirthParts[3]) \in 0..99) =>
        LET now == birthdays.now
            year == PivotYear(parseInt(BirthParts[3]), now)
            month == MonthOf(BirthParts[2])
            day == parseInt(BirthParts[1])
            had == ~(now.month < month \/ (now.month = month /\ now.day < day))
            age == (now.year - year) - (IF had THEN 0 ELSE 1)
        IN  /\ birthdays.birthYear = year
            /\ SubSeq(birthdays.birthFormatted, Len(birthdays.birthFormatted) - 3,
                      Len(birthdays.birthFormatted)) = NumToStr(year)
            /\ (month # NaN /\ day \in 1..DaysInMonth(year, month)) =>
                  birthdays.age = IF age < 0 \/ age > 150 THEN NullNumber ELSE age

\* the date functions were applied to the two-digit year that equals the
\* pivot: it is taken for a year of this century, still to come
PivotYearAtPivot ==
    /\ birthdays.call = "dates"
    /\ Len(BirthParts) = 3
    /\ parseInt(BirthParts[3]) = (birthdays.now.year % 100) + 10
    /\ birthdays.birthYear = 2000 + parseInt(BirthParts[3])
    /\ birthdays.age = NullNumber

-----------------------------------------------------------------------------
(* C16: the fetch handler is cache-first.  For every GET request, when      *)
(* caches.match found a response the event is answered with that response  *)
(* and fetch() is never called for it; the event is answered with a        *)
(* network response only when caches.match found none; a request that is   *)
(* not a GET is never answered by the handler, never sent to the network   *)
(* by it and never put in a cache.                                         *)

CacheFirst ==
    \A i \in 1..Len(fetchEvents) :
        LET e == fetchEvents[i]
        IN  /\ e.method # "GET" =>
                /\ e.pc = "ignored"
                /\ e.response = NoResponse
                /\ ~e.contacted
                /\ e.put = "none"
            /\ (e.method = "GET" /\ e.cachedResponse # NoResponse) =>
                /\ ~e.contacted
                /\ e.response = e.cachedResponse
                /\ e.put = "none"
            /\ e.contacted => e.cachedResponse = NoResponse
            /\ e.networkResponse # NoResponse =>
                /\ e.cachedResponse = NoResponse
                /\ e.response = e.networkResponse

\* one GET was answered from the cache that install filled, another, which
\* no cache held, from the network, and a POST was left alone
ServedFromCacheThenNetwork ==
    /\ Len(fetchEvents) = 2
    /\ fetchEvents[1].method = "GET"
    /\ fetchEvents[1].pc = "responded"
    /\ fetchEvents[1].response = Response(AppUrl("/app.js"), 200, "install")
    /\ ~fetchEvents[1].contacted
    /\ fetchEvents[2].method = "GET"
    /\ fetchEvents[2].pc = "responded"
    /\ fetchEvents[2].contacted
    /\ fetchEvents[2].response.from = "network"

-----------------------------------------------------------------------------
(* C17: a resource that no cache holds is fetched from the network once:   *)
(* of two GET events for the same url, once the network has answered the   *)
(* earlier one with status 200, the later one is never sent to the         *)
(* network, however the steps of the two events interleave.  (Requests of  *)
(* browser extensions, which the handler never stores, are left aside.)    *)

FetchedOnce ==
    \A i, j \in 1..Len(fetchEvents) :
        (/\ i < j
         /\ fetchEvents[i].method = "GET"
         /\ fetchEvents[j].method = "GET"
         /\ fetchEvents[i].url = fetchEvents[j].url
         /\ ~IsChromeExtension(fetchEvents[i].url)
         /\ fetchEvents[i].networkResponse.status = 200)
        => ~fetchEvents[j].contacted

-----------------------------------------------------------------------------
(* C18: once the activate step has completed, the storage holds no cache   *)
(* of another name than CACHE_NAME, and the cache named CACHE_NAME is      *)
(* still there and caches.delete was never called for it, whatever caches  *)
(* the storage held when the worker was registered.                        *)

OldCachesDeleted ==
    worker.state = "activated" =>
        /\ \A n \in SeqToSet(caches.keys) : n = CACHE_NAME
        /\ MapHas(caches, CACHE_NAME)
        /\ CACHE_NAME \notin worker.deleted
        /\ caches.val[CACHE_NAME][AppUrl("/index.html")]
               = Response(AppUrl("/index.html"), 200, "install")

\* activation has completed after the two caches of other names were deleted
ActivatedAfterDeletes ==
    /\ worker.state = "activated"
    /\ worker.deleted = {"family-tree-cache-v3.1", "runtime-cache"}
    /\ fetchEvents = << >>

-----------------------------------------------------------------------------
(* Properties of getDescendantPath, turn by turn (specification SpecWalk). *)

\* the ids that the lists of childrenMap lead to from id in exactly n steps
RECURSIVE Down(_, _)
Down(id, n) ==
    IF n = 0 THEN {id}
    ELSE UNION {SeqToSet(childrenMap[c]) : c \in Down(id, n - 1) \cap DOMAIN childrenMap}

DownWithin(id, target) == \E n \in 0..StoreSize : target \in Down(id, n)

\* the least number of child links from id to target
DownDistance(id, target) ==
    CHOOSE n \in 0..StoreSize :
        target \in Down(id, n) /\ \A m \in 0..(n - 1) : target \notin Down(id, m)

\* the path of n child links from id to target that goes, wherever such
\* paths part, through the child with the smallest id
RECURSIVE LeastPath(_, _, _)
LeastPath(id, target, n) ==
    IF n = 0 THEN <<id>>
    ELSE LET next == {c \in SeqToSet(childrenMap[id]) : target \in Down(c, n - 1)}
             least == CHOOSE c \in next : \A d \in next : c = d \/ StrLess(c, d)
         IN  <<id>> \o LeastPath(least, target, n - 1)

\* C21: getDescendantPath(ancestor, target) returns, when target is
\* reachable from ancestor over the lists of childrenMap, a shortest list
\* from ancestor to target in which every element is a child of the one
\* before, and of the shortest such lists the one that takes the child with
\* the smallest id where they first differ; it returns null when target is
\* unreachable.
DescendantPathLeast ==
    (walk.kind = "getDescendantPath" /\ walk.done) =>
        LET path == walk.out
            start == walk.id
            target == walk.target
        IN  IF DownWithin(start, target)
            THEN /\ path # NoPath
                 /\ path[1] = start /\ path[Len(path)] = target
                 /\ \A i \in 1..(Len(path) - 1) :
                      /\ path[i] \in DOMAIN childrenMap
                      /\ Includes(childrenMap[path[i]], path[i + 1])
                 /\ Len(path) - 1 = DownDistance(start, target)
                 /\ path = LeastPath(start, target, DownDistance(start, target))
            ELSE path = NoPath

\* getDescendantPath has returned a path of two links to a grandchild that
\* two children of the ancestor have as a child, the one it goes through
\* standing after the other in PEOPLE
DescendantPathTied ==
    /\ walk.kind = "getDescendantPath" /\ walk.done /\ walk.out # NoPath
    /\ Len(walk.out) = 3
    /\ \E i \in 1..Len(PEOPLE) : \E j \in 1..Len(PEOPLE) :
         /\ i < j
         /\ PEOPLE[j] = walk.out[2]
         /\ Includes(childrenMap[walk.id], PEOPLE[i])
         /\ PEOPLE[i] \in DOMAIN childrenMap
         /\ Includes(childrenMap[PEOPLE[i]], walk.target)

-----------------------------------------------------------------------------
(* Properties of the partnership passes (specification SpecChain), stated  *)
(* of the step in which buildLookups runs: loaded is the array the adapter *)
(* returned, genderMap holds the genders of the sex column.                *)

LoadedIds == {loaded[i].id : i \in 1..Len(loaded)}

\* the persons whose gender is known when the partnership passes begin: by
\* the sex column, or as the father or the mother of a record
KnownBefore ==
    {x \in LoadedIds :
        \/ x \in DOMAIN genderMap
        \/ \E i \in 1..Len(loaded) : loaded[i].fid = x \/ loaded[i].mid = x}

PartnersIn(x) == UNION {SeqToSet(loaded[i].pids) : i \in {j \in 1..Len(loaded) : loaded[j].id = x}}

\* one of the two lists the other as a partner
Linked(x, y) == y \in PartnersIn(x) \/ x \in PartnersIn(y)

\* the persons within n partner links of k
RECURSIVE PartnerBall(_, _)
PartnerBall(k, n) ==
    IF n = 0 THEN {k}
    ELSE LET b == PartnerBall(k, n - 1)
         IN  b \cup {y \in LoadedIds : \E x \in b : Linked(x, y)}

\* C22: after the partnership passes every person within 5 partner links,
\* over persons of the store, of a person whose gender was known before
\* them has a gender, in whatever order the records and the partner lists
\* stand and whichever of the two is the husband of a pair.
PassesReachFiveLinks ==
    [][ThenBuild =>
        \A k \in KnownBefore : PartnerBall(k, 5) \subseteq DOMAIN genderMap']_vars

\* a chain of 5 links was resolved to its end although the records stand
\* from the far end on and every partner list names the farther partner
\* first
ChainOfFiveResolved ==
    /\ pc = "photos"
    /\ PEOPLE = <<IdPool[6], IdPool[5], IdPool[4], IdPool[3], IdPool[2], IdPool[1]>>
    /\ peopleMap[IdPool[2]].pids = <<IdPool[3], IdPool[1]>>
    /\ \A i \in 1..6 : IdPool[i] \in DOMAIN genderMap
    /\ \A k \in DOMAIN peopleMap : peopleMap[k].fid = EmptyStr

\* C23 as stated: when one person only has a known gender and some person
\* is more than 5 partner links away from that one, some person of the
\* store has no gender after the partnership passes, in every order of
\* the records.
LongChainUnresolved ==
    [][ThenBuild =>
        \A k \in KnownBefore :
            (KnownBefore = {k} /\ PartnerBall(k, Len(loaded)) # PartnerBall(k, 5))
            => \E x \in LoadedIds : x \notin DOMAIN genderMap']_vars

\* the place of the record of x in the array
RecordIndex(x) == CHOOSE i \in 1..Len(loaded) : loaded[i].id = x

\* the records stand from the far end of the chain on, each one partner
\* link nearer to k than the one before, and every partner list names the
\* farther partner, whose record comes earlier, first
FarFirst(k) ==
    /\ \A i \in 1..Len(loaded) :
         /\ loaded[i].id \in PartnerBall(k, Len(loaded) - i)
         /\ i < Len(loaded) => loaded[i].id \notin PartnerBall(k, Len(loaded) - i - 1)
    /\ \A i \in 1..Len(loaded) :
         \A a \in 1..Len(loaded[i].pids) : \A b \in 1..Len(loaded[i].pids) :
            a < b => RecordIndex(loaded[i].pids[a]) < RecordIndex(loaded[i].pids[b])

\* C23, amended: when one person only has a known gender, the records
\* stand from the far end of the chain to that person and every partner
\* list names the farther partner first, every person more than 5 partner
\* links away has no gender after the partnership passes.
LongChainUnresolvedFarFirst ==
    [][ThenBuild =>
        \A k \in KnownBefore :
            (KnownBefore = {k} /\ FarFirst(k))
            => \A x \in LoadedIds \ PartnerBall(k, 5) : x \notin DOMAIN genderMap']_vars

\* in a chain of 6 links that stands from the far end on the last person
\* has no gender after the passes, the others have one
LongChainFarEndUnknown ==
    /\ pc = "photos"
    /\ PEOPLE = <<IdPool[7], IdPool[6], IdPool[5], IdPool[4], IdPool[3], IdPool[2],
                  IdPool[1]>>
    /\ \A i \in 2..6 : peopleMap[IdPool[i]].pids = <<IdPool[i + 1], IdPool[i - 1]>>
    /\ \A i \in 1..6 : IdPool[i] \in DOMAIN genderMap
    /\ IdPool[7] \notin DOMAIN genderMap

-----------------------------------------------------------------------------
(* Properties of the inference from parenthood (specification SpecBuild),  *)
(* stated of the step in which buildLookups runs.                          *)

\* the ids some record names as its father or its mother, and which have
\* no gender from the sex column
RoleIds ==
    {x \in UNION {{loaded[i].fid, loaded[i].mid} : i \in 1..Len(loaded)} :
        Truthy(x) /\ x \notin DOMAIN genderMap}

\* the first record to name x as a parent
FirstNaming(x) ==
    CHOOSE i \in 1..Len(loaded) :
        /\ x \in {loaded[i].fid, loaded[i].mid}
        /\ \A j \in 1..(i - 1) : x \notin {loaded[j].fid, loaded[j].mid}

\* C24 as stated: after inference every id named as a father and without a
\* gender from the sex column is male, and every id named as a mother and
\* without a gender from the sex column is female, also an id that one
\* record names as father and another as mother.
ParentRolesGendered ==
    [][ThenBuild =>
        \A i \in 1..Len(loaded) :
            /\ loaded[i].fid \in RoleIds =>
                 /\ loaded[i].fid \in DOMAIN genderMap'
                 /\ genderMap'[loaded[i].fid] = "M"
            /\ loaded[i].mid \in RoleIds =>
                 /\ loaded[i].mid \in DOMAIN genderMap'
                 /\ genderMap'[loaded[i].mid] = "F"]_vars

\* C24, amended: after inference every id named as a parent and without a
\* gender from the sex column has the gender of the role in which the
\* first record that names it, in the order of PEOPLE, names it (father
\* before mother within one record): male when only ever named as a
\* father, female when only ever named as a mother.
FirstRoleGendered ==
    [][ThenBuild =>
        \A x \in RoleIds :
            /\ x \in DOMAIN genderMap'
            /\ genderMap'[x] = IF loaded[FirstNaming(x)].fid = x THEN "M" ELSE "F"
            /\ (\A i \in 1..Len(loaded) : loaded[i].mid # x) => genderMap'[x] = "M"
            /\ (\A i \in 1..Len(loaded) : loaded[i].fid # x) => genderMap'[x] = "F"]_vars

\* an id without a row in persons.json, so without a sex, is the father of
\* one person and the mother of another, and female after inference
FatherInferredFemale ==
    /\ pc = "photos"
    /\ \E x \in DOMAIN genderMap :
         /\ x \notin DOMAIN peopleMap
         /\ genderMap[x] = "F"
         /\ \E k \in DOMAIN peopleMap : peopleMap[k].fid = x
         /\ \E k \in DOMAIN peopleMap : peopleMap[k].mid = x

-----------------------------------------------------------------------------
(* Properties of the adapter (specification SpecBuild).                    *)

\* C25: in the array loadNewDatabase returns, and in the store built from
\* it, no person's pids holds that person's own id, whatever the rows of
\* families.json, a row with the same husband and wife included.
NoSelfPartner ==
    /\ \A i \in 1..Len(loaded) : ~Includes(loaded[i].pids, loaded[i].id)
    /\ \A k \in DOMAIN peopleMap : ~Includes(peopleMap[k].pids, k)

-----------------------------------------------------------------------------
(* The partner branch of the resolver (specification SpecKin).             *)

\* id2 stands in the pids of id1 in the store
ListedPartner(id1, id2) ==
    /\ id1 \in DOMAIN peopleMap
    /\ \E i \in 1..Len(peopleMap[id1].pids) : peopleMap[id1].pids[i] = id2

\* the label the gender recorded for id decides
PartnerLabelOf(id) ==
    IF id \in DOMAIN genderMap /\ genderMap[id] = "M" THEN "Bhartha (Husband)"
    ELSE IF id \in DOMAIN genderMap /\ genderMap[id] = "F" THEN "Bharya (Wife)"
    ELSE "Spouse"

\* C26: whenever id1 and id2 differ and id2 is in the pids of id1,
\* findRelationship(id1, id2) returns the partner label the gender of id2
\* decides (M husband, F wife, unknown "Spouse"), whatever ancestors the
\* two have in common.
PartnerLabelByGender ==
    (relation.id1 # relation.id2 /\ ListedPartner(relation.id1, relation.id2)) =>
        /\ relation.route = "partner"
        /\ relation.label = PartnerLabelOf(relation.id2)

\* findRelationship was called for two partners whose depth maps share an id
PartnersWithCommonAncestor ==
    /\ relation.id1 # relation.id2
    /\ ListedPartner(relation.id1, relation.id2)
    /\ relation.route = "partner"
    /\ CommonAncestors # {}

-----------------------------------------------------------------------------
(* The birthdays of the window (specification SpecDates).                  *)

\* the days of a common year before each month
DaysBeforeMonth == <<0, 31, 59, 90, 120, 151, 181, 212, 243, 273, 304, 334>>

\* the number of the day d in the proleptic Gregorian calendar
DayNumber(d) ==
    LET y == d.year - 1
    IN  365 * y + (y \div 4) - (y \div 100) + (y \div 400)
          + DaysBeforeMonth[d.month + 1]
          + (IF IsLeap(d.year) /\ d.month >= 2 THEN 1 ELSE 0)
          + d.day

\* the dates of the calendar in the year of today and the year after
CalendarDates(today) ==
    {d \in [year : {today.year, today.year + 1}, month : 0..11, day : 1..31] :
        d.day <= DaysInMonth(d.year, d.month)}

\* the date d lies in [today, today + daysAhead)
InBirthdayWindow(d, today, daysAhead) ==
    /\ d.month \in 0..11
    /\ d.day \in 1..DaysInMonth(d.year, d.month)
    /\ DayNumber(d) - DayNumber(today) \in 0..(daysAhead - 1)

\* the person of id stands in the group of the date d of the list
ListedUnder(list, id, d) ==
    \E g \in 1..Len(list) :
        /\ list[g].date = d
        /\ \E e \in 1..Len(list[g].persons) : list[g].persons[e].id = id

\* the age the birthdays page owes the birth string on a date of year
BirthdayAge(birthStr, year, today) ==
    LET birthYear == getBirthYearFromBirth(birthStr, today)
    IN  IF birthYear # NullNumber /\ year - birthYear >= 0 /\ year - birthYear <= 150
        THEN year - birthYear ELSE NullNumber

\* C27: getUpcomingBirthdays(daysAhead) lists a person under a date exactly
\* when the date lies in [today, today + daysAhead) and the month and day
\* parsed from the person's Birth are the date's; a person whose Birth
\* cannot be parsed is under no date; no group is empty; and ageAtDisplay
\* is the year of the date less the birth year when the birth year parses
\* and the difference is within 0..150, else null.
UpcomingBirthdaysExact ==
    birthdays.call = "getUpcomingBirthdays" =>
        LET list == birthdays.list
            today == birthdays.today
            dates == CalendarDates(today) \cup {list[g].date : g \in 1..Len(list)}
        IN  /\ \A i \in 1..Len(Birth) : \A d \in dates :
                  ListedUnder(list, Birth[i].id, d) <=>
                      /\ InBirthdayWindow(d, today, birthdays.daysAhead)
                      /\ getMonthDayFromBirth(Birth[i].Birth)
                            = [month |-> d.month, day |-> d.day]
            /\ \A i \in 1..Len(Birth) :
                  getMonthDayFromBirth(Birth[i].Birth) = NoMonthDay =>
                      \A d \in dates : ~ListedUnder(list, Birth[i].id, d)
            /\ \A g \in 1..Len(list) :
                  /\ Len(list[g].persons) > 0
                  /\ \A e \in 1..Len(list[g].persons) :
                        \E i \in 1..Len(Birth) :
                            /\ Birth[i].id = list[g].persons[e].id
                            /\ list[g].persons[e].ageAtDisplay
                                  = BirthdayAge(Birth[i].Birth, list[g].date.year, today)

\* a group of the list holds a person with an age and one without
BirthdayWithAndWithoutAge ==
    /\ birthdays.call = "getUpcomingBirthdays"
    /\ \E g \in 1..Len(birthdays.list) :
         LET persons == birthdays.list[g].persons
         IN  /\ \E e \in 1..Len(persons) : persons[e].ageAtDisplay = NullNumber
             /\ \E e \in 1..Len(persons) : persons[e].ageAtDisplay \in 0..150

-----------------------------------------------------------------------------
(* Start-up and the gestures of the user (specification SpecStart).        *)

\* C28: once the user has selected a person, the tree stays centred on the
\* person selected last until the next selection: no step of the start-up
\* chain moves the centre of a tree a gesture has drawn.
SelectionStays ==
    [][(activePersonId # Null /\ pc' # pc) => activePersonId' = activePersonId]_vars

\* buildLookups has run
Built == pc \in {"photos", "done"}

\* C29: the store is built at most once, only after all four fetches have
\* completed, and no tree is drawn before the build has completed, whatever
\* gestures come in between.
BuiltOnceAfterJoin ==
    /\ [](Built => \A file \in DataFiles : requests[file] = "arrived")
    /\ [](~Built => (tree = << >> /\ activePersonId = Null
                      /\ PEOPLE = << >> /\ peopleMap = << >> /\ childrenMap = << >>))
    /\ [][Built => (Built' /\ PEOPLE' = PEOPLE /\ childrenMap' = childrenMap
                     /\ DOMAIN peopleMap' = DOMAIN peopleMap)]_vars

\* a gesture has drawn a tree while photos.json was still awaited
DrawnDuringPhotos ==
    /\ pc = "photos"
    /\ activePersonId # Null
    /\ tree # << >>

-----------------------------------------------------------------------------
(* The path walks against the depth map (specification SpecKin).           *)

\* for the person x and an id a of getAncestors(x): both paths between the
\* two are found and have as many links as the depth recorded for a
PathsOfDepth(x, a) ==
    LET depth == getAncestors(peopleMap, x).val[a]
        up == getAncestorPath(peopleMap, x, a)
        down == getDescendantPath(childrenMap, a, x)
    IN  /\ up # NoPath /\ Len(up) - 1 = depth
        /\ down # NoPath /\ Len(down) - 1 = depth

\* C30: for every id x of the store and every id a of getAncestors(x),
\* getAncestorPath(x, a) and getDescendantPath(a, x) have as many links as
\* the depth getAncestors(x) records for a, so the pair (u,d) of
\* findRelationship is the pair of depths whose sum it minimised.
PathsAgreeWithDepths ==
    /\ \A x \in DOMAIN peopleMap :
          \A a \in DOMAIN getAncestors(peopleMap, x).val : PathsOfDepth(x, a)
    /\ relation.route = "ancestor" =>
          RelUD(relation) =
              <<getAncestors(peopleMap, relation.id1).val[relation.bestAncestor],
                getAncestors(peopleMap, relation.id2).val[relation.bestAncestor]>>

\* findRelationship went two links down from the first person, who is at
\* depth 2 in the map of the second
TwoLinksDown ==
    /\ relation.route = "ancestor"
    /\ relation.bestAncestor = relation.id1
    /\ RelUD(relation) = <<0, 2>>
    /\ getAncestors(peopleMap, relation.id2).val[relation.id1] = 2

====
